---------------------------- MODULE Spec2Model ----------------------------
(***************************************************************************)
(* Model of the rbxl typed-value codec (src/rbxl/values.go and             *)
(* src/rbxl/arrays.go).                                                    *)
(*                                                                         *)
(* Representation.  A byte is a number in 0..255 and a Go []byte is a      *)
(* sequence of bytes.  A fixed-width machine integer (uint32, int32,       *)
(* uint64, int64, uint16, int16) is a "word": the sequence of its bytes,   *)
(* most significant first, in two's complement.  A float32/float64 is the  *)
(* word of its IEEE-754 bits (math.Float32bits and math.Float32frombits    *)
(* reinterpret the same bits).  A Value is a record [type, v]: type is the *)
(* Type tag and v the Go value, a struct being a record with the source's  *)
(* field names.  An error is a record [msg, args]; nil is the one whose    *)
(* msg is "".  A call that panics is reported by the panic field of its    *)
(* result.                                                                 *)
(***************************************************************************)
EXTENDS Integers, Sequences, FiniteSets, TLC

----------------------------------------------------------------------------
(* Type tags, values.go:15-45 *)

TypeInvalid == 0
TypeString == 1
TypeBool == 2
TypeInt == 3
TypeFloat == 4
TypeDouble == 5
TypeUDim == 6
TypeUDim2 == 7
TypeRay == 8
TypeFaces == 9
TypeAxes == 10
TypeBrickColor == 11
TypeColor3 == 12
TypeVector2 == 13
TypeVector3 == 14
TypeVector2int16 == 15
TypeCFrame == 16
TypeCFrameQuat == 17
TypeToken == 18
TypeReference == 19
TypeVector3int16 == 20
TypeNumberSequence == 21
TypeColorSequence == 22
TypeNumberRange == 23
TypeRect2D == 24
TypePhysicalProperties == 25
TypeColor3uint8 == 26
TypeInt64 == 27
TypeSharedString == 28

(* func (t Type) Valid() bool *)
Valid(t) ==
    TypeString <= t /\ t <= TypeSharedString /\ t # 17

(* func (t Type) String() string *)
String(t) ==
    CASE t = TypeString -> "String"
      [] t = TypeBool -> "Bool"
      [] t = TypeInt -> "Int"
      [] t = TypeFloat -> "Float"
      [] t = TypeDouble -> "Double"
      [] t = TypeUDim -> "UDim"
      [] t = TypeUDim2 -> "UDim2"
      [] t = TypeRay -> "Ray"
      [] t = TypeFaces -> "Faces"
      [] t = TypeAxes -> "Axes"
      [] t = TypeBrickColor -> "BrickColor"
      [] t = TypeColor3 -> "Color3"
      [] t = TypeVector2 -> "Vector2"
      [] t = TypeVector3 -> "Vector3"
      [] t = TypeVector2int16 -> "Vector2int16"
      [] t = TypeCFrame -> "CFrame"
      [] t = TypeToken -> "Token"
      [] t = TypeReference -> "Reference"
      [] t = TypeVector3int16 -> "Vector3int16"
      [] t = TypeNumberSequence -> "NumberSequence"
      [] t = TypeColorSequence -> "ColorSequence"
      [] t = TypeNumberRange -> "NumberRange"
      [] t = TypeRect2D -> "Rect2D"
      [] t = TypePhysicalProperties -> "PhysicalProperties"
      [] t = TypeColor3uint8 -> "Color3uint8"
      [] t = TypeInt64 -> "Int64"
      [] t = TypeSharedString -> "SharedString"
      [] OTHER -> "Invalid"

----------------------------------------------------------------------------
(* Errors and results *)

Nil == [msg |-> "", args |-> <<>>]
Err(m, as) == [msg |-> m, args |-> as]
IsNil(e) == e.msg = ""

(* The two upper-case hexadecimal digits fmt prints for %02X of a byte. *)
HexDigit(d) == SubSeq("0123456789ABCDEF", d + 1, d + 1)
Hex02(t) == HexDigit(t \div 16) \o HexDigit(t % 16)

(* The ASCII code of a character of a type name. *)
AsciiDigits == "0123456789"
AsciiUpper == "ABCDEFGHIJKLMNOPQRSTUVWXYZ"
AsciiLower == "abcdefghijklmnopqrstuvwxyz"
IndexIn(s, c) == CHOOSE k \in 1..Len(s) : SubSeq(s, k, k) = c
AsciiOf(c) ==
    IF \E k \in 1..Len(AsciiDigits) : SubSeq(AsciiDigits, k, k) = c
    THEN 47 + IndexIn(AsciiDigits, c)
    ELSE IF \E k \in 1..Len(AsciiUpper) : SubSeq(AsciiUpper, k, k) = c
    THEN 64 + IndexIn(AsciiUpper, c)
    ELSE 96 + IndexIn(AsciiLower, c)

(* What fmt prints for the verb %X, or %02X, of an operand of type Type:  *)
(* Type has a String method, so fmt formats the string t.String(), and    *)
(* for a string %X prints two upper-case hexadecimal digits per byte.     *)
(* (The width 2 pads nothing: no name is empty.)                          *)
RECURSIVE FormatHex(_)
FormatHex(s) ==
    IF Len(s) = 0 THEN ""
    ELSE Hex02(AsciiOf(SubSeq(s, 1, 1))) \o FormatHex(SubSeq(s, 2, Len(s)))

----------------------------------------------------------------------------
(* Bytes and words *)

Byte == 0..255

Zeros(n) == [i \in 1..n |-> 0]

Reverse(s) == [i \in 1..Len(s) |-> s[Len(s) + 1 - i]]

(* s[lo:hi] of Go, 0-based and half-open. *)
Slice(s, lo, hi) == SubSeq(s, lo + 1, hi)

(* copy(dst[at:], src) where the source fits. *)
CopyAt(dst, at, src) ==
    [i \in 1..Len(dst) |->
        IF i > at /\ i <= at + Len(src) THEN src[i - at] ELSE dst[i]]

RECURSIVE Concat(_)
Concat(ss) == IF ss = <<>> THEN <<>> ELSE Head(ss) \o Concat(Tail(ss))

Bit(x, i) == (x \div (2 ^ i)) % 2

XorByte(a, b) ==
    ((Bit(a, 0) + Bit(b, 0)) % 2) + 2 * ((Bit(a, 1) + Bit(b, 1)) % 2)
    + 4 * ((Bit(a, 2) + Bit(b, 2)) % 2) + 8 * ((Bit(a, 3) + Bit(b, 3)) % 2)
    + 16 * ((Bit(a, 4) + Bit(b, 4)) % 2) + 32 * ((Bit(a, 5) + Bit(b, 5)) % 2)
    + 64 * ((Bit(a, 6) + Bit(b, 6)) % 2) + 128 * ((Bit(a, 7) + Bit(b, 7)) % 2)

Max2(a, b) == IF a >= b THEN a ELSE b

OrByte(a, b) ==
    Max2(Bit(a, 0), Bit(b, 0)) + 2 * Max2(Bit(a, 1), Bit(b, 1))
    + 4 * Max2(Bit(a, 2), Bit(b, 2)) + 8 * Max2(Bit(a, 3), Bit(b, 3))
    + 16 * Max2(Bit(a, 4), Bit(b, 4)) + 32 * Max2(Bit(a, 5), Bit(b, 5))
    + 64 * Max2(Bit(a, 6), Bit(b, 6)) + 128 * Max2(Bit(a, 7), Bit(b, 7))

(* x ^ y and x | y on words of the same width. *)
Xor(x, y) == [i \in 1..Len(x) |-> XorByte(x[i], y[i])]
Or(x, y) == [i \in 1..Len(x) |-> OrByte(x[i], y[i])]

(* Byte j of word w, or fill outside the word. *)
ByteOr(w, j, fill) == IF j >= 1 /\ j <= Len(w) THEN w[j] ELSE fill

(* x << k on a word: bits shifted out at the top are lost. *)
Shl(w, k) ==
    LET q == k \div 8
        r == k % 8
    IN [i \in 1..Len(w) |->
          ((ByteOr(w, i + q, 0) * (2 ^ r)) % 256)
          + (ByteOr(w, i + q + 1, 0) \div (2 ^ (8 - r)))]

(* x >> k on an unsigned word (zeros shifted in). *)
Shr(w, k) ==
    LET q == k \div 8
        r == k % 8
    IN [i \in 1..Len(w) |->
          (ByteOr(w, i - q, 0) \div (2 ^ r))
          + ((ByteOr(w, i - q - 1, 0) % (2 ^ r)) * (2 ^ (8 - r)))]

(* x >> k on a signed word (the sign bit shifted in). *)
Sar(w, k) ==
    LET q == k \div 8
        r == k % 8
        f == IF w[1] >= 128 THEN 255 ELSE 0
    IN [i \in 1..Len(w) |->
          (ByteOr(w, i - q, f) \div (2 ^ r))
          + ((ByteOr(w, i - q - 1, f) % (2 ^ r)) * (2 ^ (8 - r)))]

(* x & 1 on a word. *)
And1(w) == [i \in 1..Len(w) |-> IF i = Len(w) THEN w[i] % 2 ELSE 0]

(* The n-byte word of a natural number below 2^31. *)
NatWord(x, n) ==
    [i \in 1..n |-> IF n - i >= 4 THEN 0 ELSE (x \div (256 ^ (n - i))) % 256]

(* The n-byte two's complement word of an integer in -2^31..2^31-1. *)
IntWord(x, n) ==
    IF x >= 0 THEN NatWord(x, n)
    ELSE [i \in 1..n |-> 255 - NatWord(-(x + 1), n)[i]]

(* x + y and x - y on words of the same width, wrapping around. *)
RECURSIVE AddCarry(_, _, _, _)
AddCarry(x, y, i, c) ==
    IF i = 0 THEN <<>>
    ELSE LET s == x[i] + y[i] + c
         IN Append(AddCarry(x, y, i - 1, s \div 256), s % 256)
Add(x, y) == AddCarry(x, y, Len(x), 0)
Sub(x, y) == AddCarry(x, [i \in 1..Len(y) |-> 255 - y[i]], Len(x), 1)

(* binary.BigEndian / binary.LittleEndian: PutUintNN lays a word out in   *)
(* a buffer, UintNN reads the first NN/8 bytes of a buffer as a word.     *)
BigEndianPut(w) == w
LittleEndianPut(w) == Reverse(w)
BigEndianUint(b, n) == SubSeq(b, 1, n)
LittleEndianUint(b, n) == Reverse(SubSeq(b, 1, n))

(* The value of an unsigned word compared with a small natural number;    *)
(* the number is below 2^31 and the word may not be.                      *)
WordIsNat(w, x) == w = NatWord(x, Len(w))
RECURSIVE WordGreater(_, _)
WordGreater(w, v) ==
    IF w = <<>> THEN FALSE
    ELSE IF Head(w) # Head(v) THEN Head(w) > Head(v)
    ELSE WordGreater(Tail(w), Tail(v))
WordGtNat(w, x) == WordGreater(w, NatWord(x, Len(w)))
(* int(w) for a word known to be at most a small natural number. *)
WordNat(w) ==
    LET n == Len(w)
    IN w[n] + 256 * w[n - 1] + 65536 * w[n - 2] + 16777216 * w[n - 3]

(* k times a word, wrapping around. *)
RECURSIVE WordTimes(_, _)
WordTimes(w, k) ==
    IF k = 0 THEN [i \in 1..Len(w) |-> 0] ELSE Add(WordTimes(w, k - 1), w)

(* c + k*int(w) of Go for a uint32 word w and small c and k, the Go int   *)
(* being 64 bits wide: the number when w is below 2^24, and its word of 8 *)
(* bytes when w is larger and the number may not fit an integer here.     *)
IntSum(c, k, w) ==
    IF w[1] = 0 THEN c + k * WordNat(w)
    ELSE Add(NatWord(c, 8), WordTimes([i \in 1..4 |-> 0] \o w, k))

----------------------------------------------------------------------------
(* Scalar primitives, values.go:302-327 *)

(* A variant whose right shift brings in zeros instead of the sign: the   *)
(* zigzag laws must tell it from encodeZigzag32.                          *)
encodeZigzag32Logical(n) == Xor(Shl(n, 1), Shr(n, 31))

encodeZigzag32(n) == Xor(Shl(n, 1), Sar(n, 31))

decodeZigzag32(n) == Xor(Shr(n, 1), Sar(Shl(And1(n), 31), 31))

encodeZigzag64(n) == Xor(Shl(n, 1), Sar(n, 63))

decodeZigzag64(n) == Xor(Shr(n, 1), Sar(Shl(And1(n), 63), 63))

(* A variant that drops the sign bit instead of moving it to the bottom:  *)
(* the Roblox-float laws must tell it from encodeRobloxFloat.             *)
encodeRobloxFloatShift(f) == Shl(f, 1)

encodeRobloxFloat(f) == Or(Shl(f, 1), Shr(f, 31))

decodeRobloxFloat(n) == Or(Shr(n, 1), Shl(n, 31))

----------------------------------------------------------------------------
(* Results of a FromBytes call on a freshly generated value: the value    *)
(* the receiver holds afterwards, the error returned, and whether the     *)
(* call panicked (then nothing is returned).                              *)

Ok(v) == [v |-> v, err |-> Nil, panic |-> FALSE]
Fail(zero, m, as) == [v |-> zero, err |-> Err(m, as), panic |-> FALSE]
Panic(zero) == [v |-> zero, err |-> Nil, panic |-> TRUE]

(* err = v.Field.FromBytes(b) of a fieldSet: r is the outcome of FromBytes *)
(* on a fresh value and set is v with the field it read; on an error the  *)
(* field, and so v, is left as it was and the error is returned.          *)
fieldFromBytes(v, r, set) ==
    IF IsNil(r.err) THEN Ok(set) ELSE [v |-> v, err |-> r.err, panic |-> FALSE]

(* A float32 written with binary.LittleEndian.PutUint32(math.Float32bits) *)
(* and read back at byte offset off of b.                                 *)
PutFloat32LE(f) == LittleEndianPut(f)
Float32LE(b, off) == LittleEndianUint(Slice(b, off, off + 4), 4)

(* n != k*int(w) of Go for a byte count n and a uint32 word w, the Go int *)
(* being 64 bits wide so that the product cannot overflow.                *)
LenIsProduct(n, k, w) == n % k = 0 /\ WordIsNat(w, n \div k)

(* ValueString *)
ZeroString == <<>>
ValueStringBytes(v) == LittleEndianPut(NatWord(Len(v), 4)) \o v
ValueStringFromBytes(b) ==
    IF Len(b) < 4
    THEN Fail(ZeroString, "array length must be greater than or equal to 4", <<>>)
    ELSE LET length == LittleEndianUint(Slice(b, 0, 4), 4)
             str == Slice(b, 4, Len(b))
         IN IF ~WordIsNat(length, Len(str))
            THEN Fail(ZeroString,
                      "string length (%d) does not match integer length (%d)",
                      <<Len(str), IntSum(0, 1, length)>>)
            ELSE Ok(str)

(* ValueBool *)
ValueBoolBytes(v) == IF v THEN <<1>> ELSE <<0>>
ValueBoolFromBytes(b) ==
    IF Len(b) # 1 THEN Fail(FALSE, "array length must be 1", <<>>)
    ELSE Ok(b[1] # 0)

(* ValueInt *)
ValueIntBytes(v) == BigEndianPut(encodeZigzag32(v))
ValueIntFromBytes(b) ==
    IF Len(b) # 4 THEN Fail(Zeros(4), "array length must be 4", <<>>)
    ELSE Ok(decodeZigzag32(BigEndianUint(b, 4)))

(* ValueFloat *)
ValueFloatBytes(v) == BigEndianPut(encodeRobloxFloat(v))
ValueFloatFromBytes(b) ==
    IF Len(b) # 4 THEN Fail(Zeros(4), "array length must be 4", <<>>)
    ELSE Ok(decodeRobloxFloat(BigEndianUint(b, 4)))

(* ValueDouble *)
ValueDoubleBytes(v) == LittleEndianPut(v)
ValueDoubleFromBytes(b) ==
    IF Len(b) # 8 THEN Fail(Zeros(8), "array length must be 8", <<>>)
    ELSE Ok(LittleEndianUint(b, 8))

(* ValueUDim *)
ZeroUDim == [Scale |-> Zeros(4), Offset |-> Zeros(4)]
ValueUDimBytes(v) ==
    CopyAt(CopyAt(Zeros(8), 0, ValueFloatBytes(v.Scale)), 4, ValueIntBytes(v.Offset))
ValueUDimFromBytes(b) ==
    IF Len(b) # 8 THEN Fail(ZeroUDim, "array length must be 8", <<>>)
    ELSE Ok([Scale |-> ValueFloatFromBytes(Slice(b, 0, 4)).v,
             Offset |-> ValueIntFromBytes(Slice(b, 4, 8)).v])
ValueUDimFieldLen == <<4, 4>>
ValueUDimFieldSet(v, i, b) ==
    CASE i = 0 -> fieldFromBytes(v, ValueFloatFromBytes(b),
                               [v EXCEPT !.Scale = ValueFloatFromBytes(b).v])
      [] i = 1 -> fieldFromBytes(v, ValueIntFromBytes(b),
                               [v EXCEPT !.Offset = ValueIntFromBytes(b).v])
      [] OTHER -> Ok(v)
ValueUDimFieldGet(v, i) ==
    CASE i = 0 -> ValueFloatBytes(v.Scale)
      [] i = 1 -> ValueIntBytes(v.Offset)
      [] OTHER -> <<>>

(* ValueUDim2 *)
ZeroUDim2 ==
    [ScaleX |-> Zeros(4), ScaleY |-> Zeros(4), OffsetX |-> Zeros(4), OffsetY |-> Zeros(4)]
ValueUDim2Bytes(v) ==
    CopyAt(CopyAt(CopyAt(CopyAt(Zeros(16),
        0, ValueFloatBytes(v.ScaleX)), 4, ValueFloatBytes(v.ScaleY)),
        8, ValueIntBytes(v.OffsetX)), 12, ValueIntBytes(v.OffsetY))
ValueUDim2FromBytes(b) ==
    IF Len(b) # 16 THEN Fail(ZeroUDim2, "array length must be 16", <<>>)
    ELSE Ok([ScaleX |-> ValueFloatFromBytes(Slice(b, 0, 4)).v,
             ScaleY |-> ValueFloatFromBytes(Slice(b, 4, 8)).v,
             OffsetX |-> ValueIntFromBytes(Slice(b, 8, 12)).v,
             OffsetY |-> ValueIntFromBytes(Slice(b, 12, 16)).v])
ValueUDim2FieldLen == <<4, 4, 4, 4>>
ValueUDim2FieldSet(v, i, b) ==
    CASE i = 0 -> fieldFromBytes(v, ValueFloatFromBytes(b),
                               [v EXCEPT !.ScaleX = ValueFloatFromBytes(b).v])
      [] i = 1 -> fieldFromBytes(v, ValueFloatFromBytes(b),
                               [v EXCEPT !.ScaleY = ValueFloatFromBytes(b).v])
      [] i = 2 -> fieldFromBytes(v, ValueIntFromBytes(b),
                               [v EXCEPT !.OffsetX = ValueIntFromBytes(b).v])
      [] i = 3 -> fieldFromBytes(v, ValueIntFromBytes(b),
                               [v EXCEPT !.OffsetY = ValueIntFromBytes(b).v])
      [] OTHER -> Ok(v)
ValueUDim2FieldGet(v, i) ==
    CASE i = 0 -> ValueFloatBytes(v.ScaleX)
      [] i = 1 -> ValueFloatBytes(v.ScaleY)
      [] i = 2 -> ValueIntBytes(v.OffsetX)
      [] i = 3 -> ValueIntBytes(v.OffsetY)
      [] OTHER -> <<>>

(* ValueRay *)
ZeroRay ==
    [OriginX |-> Zeros(4), OriginY |-> Zeros(4), OriginZ |-> Zeros(4),
     DirectionX |-> Zeros(4), DirectionY |-> Zeros(4), DirectionZ |-> Zeros(4)]
ValueRayBytes(v) ==
    PutFloat32LE(v.OriginX) \o PutFloat32LE(v.OriginY) \o PutFloat32LE(v.OriginZ)
    \o PutFloat32LE(v.DirectionX) \o PutFloat32LE(v.DirectionY)
    \o PutFloat32LE(v.DirectionZ)
ValueRayFromBytes(b) ==
    IF Len(b) # 24 THEN Fail(ZeroRay, "array length must be 24", <<>>)
    ELSE Ok([OriginX |-> Float32LE(b, 0), OriginY |-> Float32LE(b, 4),
             OriginZ |-> Float32LE(b, 8), DirectionX |-> Float32LE(b, 12),
             DirectionY |-> Float32LE(b, 16), DirectionZ |-> Float32LE(b, 20)])

(* ValueFaces *)
Flag(f, i) == IF f THEN 2 ^ i ELSE 0
ZeroFaces ==
    [Right |-> FALSE, Top |-> FALSE, Back |-> FALSE,
     Left |-> FALSE, Bottom |-> FALSE, Front |-> FALSE]
ValueFacesBytes(v) ==
    << Flag(v.Right, 0) + Flag(v.Top, 1) + Flag(v.Back, 2)
       + Flag(v.Left, 3) + Flag(v.Bottom, 4) + Flag(v.Front, 5) >>
ValueFacesFromBytes(b) ==
    IF Len(b) # 1 THEN Fail(ZeroFaces, "array length must be 1", <<>>)
    ELSE Ok([Right |-> Bit(b[1], 0) # 0, Top |-> Bit(b[1], 1) # 0,
             Back |-> Bit(b[1], 2) # 0, Left |-> Bit(b[1], 3) # 0,
             Bottom |-> Bit(b[1], 4) # 0, Front |-> Bit(b[1], 5) # 0])

(* ValueAxes *)
ZeroAxes == [X |-> FALSE, Y |-> FALSE, Z |-> FALSE]
ValueAxesBytes(v) == << Flag(v.X, 0) + Flag(v.Y, 1) + Flag(v.Z, 2) >>
ValueAxesFromBytes(b) ==
    IF Len(b) # 1 THEN Fail(ZeroAxes, "array length must be 1", <<>>)
    ELSE Ok([X |-> Bit(b[1], 0) # 0, Y |-> Bit(b[1], 1) # 0, Z |-> Bit(b[1], 2) # 0])

(* ValueBrickColor *)
ValueBrickColorBytes(v) == BigEndianPut(v)
ValueBrickColorFromBytes(b) ==
    IF Len(b) # 4 THEN Fail(Zeros(4), "array length must be 4", <<>>)
    ELSE Ok(BigEndianUint(b, 4))

(* ValueColor3 *)
ZeroColor3 == [R |-> Zeros(4), G |-> Zeros(4), B |-> Zeros(4)]
ValueColor3Bytes(v) ==
    CopyAt(CopyAt(CopyAt(Zeros(12), 0, ValueFloatBytes(v.R)),
        4, ValueFloatBytes(v.G)), 8, ValueFloatBytes(v.B))
ValueColor3FromBytes(b) ==
    IF Len(b) # 12 THEN Fail(ZeroColor3, "array length must be 12", <<>>)
    ELSE Ok([R |-> ValueFloatFromBytes(Slice(b, 0, 4)).v,
             G |-> ValueFloatFromBytes(Slice(b, 4, 8)).v,
             B |-> ValueFloatFromBytes(Slice(b, 8, 12)).v])
ValueColor3FieldLen == <<4, 4, 4>>
ValueColor3FieldSet(v, i, b) ==
    CASE i = 0 -> fieldFromBytes(v, ValueFloatFromBytes(b),
                               [v EXCEPT !.R = ValueFloatFromBytes(b).v])
      [] i = 1 -> fieldFromBytes(v, ValueFloatFromBytes(b),
                               [v EXCEPT !.G = ValueFloatFromBytes(b).v])
      [] i = 2 -> fieldFromBytes(v, ValueFloatFromBytes(b),
                               [v EXCEPT !.B = ValueFloatFromBytes(b).v])
      [] OTHER -> Ok(v)
ValueColor3FieldGet(v, i) ==
    CASE i = 0 -> ValueFloatBytes(v.R)
      [] i = 1 -> ValueFloatBytes(v.G)
      [] i = 2 -> ValueFloatBytes(v.B)
      [] OTHER -> <<>>

(* ValueVector2 *)
ZeroVector2 == [X |-> Zeros(4), Y |-> Zeros(4)]
ValueVector2Bytes(v) ==
    CopyAt(CopyAt(Zeros(8), 0, ValueFloatBytes(v.X)), 4, ValueFloatBytes(v.Y))
ValueVector2FromBytes(b) ==
    IF Len(b) # 8 THEN Fail(ZeroVector2, "array length must be 8", <<>>)
    ELSE Ok([X |-> ValueFloatFromBytes(Slice(b, 0, 4)).v,
             Y |-> ValueFloatFromBytes(Slice(b, 4, 8)).v])
ValueVector2FieldLen == <<4, 4>>
ValueVector2FieldSet(v, i, b) ==
    CASE i = 0 -> fieldFromBytes(v, ValueFloatFromBytes(b),
                               [v EXCEPT !.X = ValueFloatFromBytes(b).v])
      [] i = 1 -> fieldFromBytes(v, ValueFloatFromBytes(b),
                               [v EXCEPT !.Y = ValueFloatFromBytes(b).v])
      [] OTHER -> Ok(v)
ValueVector2FieldGet(v, i) ==
    CASE i = 0 -> ValueFloatBytes(v.X)
      [] i = 1 -> ValueFloatBytes(v.Y)
      [] OTHER -> <<>>

(* ValueVector3 *)
ZeroVector3 == [X |-> Zeros(4), Y |-> Zeros(4), Z |-> Zeros(4)]
ValueVector3Bytes(v) ==
    CopyAt(CopyAt(CopyAt(Zeros(12), 0, ValueFloatBytes(v.X)),
        4, ValueFloatBytes(v.Y)), 8, ValueFloatBytes(v.Z))
ValueVector3FromBytes(b) ==
    IF Len(b) # 12 THEN Fail(ZeroVector3, "array length must be 12", <<>>)
    ELSE Ok([X |-> ValueFloatFromBytes(Slice(b, 0, 4)).v,
             Y |-> ValueFloatFromBytes(Slice(b, 4, 8)).v,
             Z |-> ValueFloatFromBytes(Slice(b, 8, 12)).v])
ValueVector3FieldLen == <<4, 4, 4>>
ValueVector3FieldSet(v, i, b) ==
    CASE i = 0 -> fieldFromBytes(v, ValueFloatFromBytes(b),
                               [v EXCEPT !.X = ValueFloatFromBytes(b).v])
      [] i = 1 -> fieldFromBytes(v, ValueFloatFromBytes(b),
                               [v EXCEPT !.Y = ValueFloatFromBytes(b).v])
      [] i = 2 -> fieldFromBytes(v, ValueFloatFromBytes(b),
                               [v EXCEPT !.Z = ValueFloatFromBytes(b).v])
      [] OTHER -> Ok(v)
ValueVector3FieldGet(v, i) ==
    CASE i = 0 -> ValueFloatBytes(v.X)
      [] i = 1 -> ValueFloatBytes(v.Y)
      [] i = 2 -> ValueFloatBytes(v.Z)
      [] OTHER -> <<>>

(* ValueVector2int16 *)
ZeroVector2int16 == [X |-> Zeros(2), Y |-> Zeros(2)]
ValueVector2int16Bytes(v) == LittleEndianPut(v.X) \o LittleEndianPut(v.Y)
ValueVector2int16FromBytes(b) ==
    IF Len(b) # 4 THEN Fail(ZeroVector2int16, "array length must be 4", <<>>)
    ELSE Ok([X |-> LittleEndianUint(Slice(b, 0, 2), 2),
             Y |-> LittleEndianUint(Slice(b, 2, 4), 2)])

(* ValueCFrame *)
ZeroCFrame ==
    [Special |-> 0, Rotation |-> [i \in 1..9 |-> Zeros(4)], Position |-> ZeroVector3]
ValueCFrameBytes(v) ==
    LET b == IF v.Special = 0
             THEN CopyAt(Zeros(49), 1,
                         Concat([i \in 1..9 |-> PutFloat32LE(v.Rotation[i])]))
             ELSE CopyAt(Zeros(13), 0, <<v.Special>>)
    IN CopyAt(b, Len(b) - 12, ValueVector3Bytes(v.Position))
ValueCFrameFromBytes(b) ==
    IF Len(b) = 0 THEN Panic(ZeroCFrame)
    ELSE IF b[1] = 0 /\ Len(b) # 49
    THEN Fail(ZeroCFrame, "array length must be 49", <<>>)
    ELSE IF b[1] # 0 /\ Len(b) # 13
    THEN Fail(ZeroCFrame, "array length must be 13", <<>>)
    ELSE Ok([Special |-> b[1],
             Rotation |-> IF b[1] = 0
                          THEN [i \in 1..9 |->
                                  Float32LE(Slice(b, 1, Len(b)), (i - 1) * 4)]
                          ELSE [i \in 1..9 |-> Zeros(4)],
             Position |-> ValueVector3FromBytes(Slice(b, Len(b) - 12, Len(b))).v])

(* ValueToken *)
ValueTokenBytes(v) == BigEndianPut(v)
ValueTokenFromBytes(b) ==
    IF Len(b) # 4 THEN Fail(Zeros(4), "array length must be 4", <<>>)
    ELSE Ok(BigEndianUint(b, 4))

(* ValueReference *)
ValueReferenceBytes(v) == BigEndianPut(encodeZigzag32(v))
ValueReferenceFromBytes(b) ==
    IF Len(b) # 4 THEN Fail(Zeros(4), "array length must be 4", <<>>)
    ELSE Ok(decodeZigzag32(BigEndianUint(b, 4)))

(* ValueVector3int16 *)
ZeroVector3int16 == [X |-> Zeros(2), Y |-> Zeros(2), Z |-> Zeros(2)]
ValueVector3int16Bytes(v) ==
    LittleEndianPut(v.X) \o LittleEndianPut(v.Y) \o LittleEndianPut(v.Z)
ValueVector3int16FromBytes(b) ==
    IF Len(b) # 6 THEN Fail(ZeroVector3int16, "array length must be 6", <<>>)
    ELSE Ok([X |-> LittleEndianUint(Slice(b, 0, 2), 2),
             Y |-> LittleEndianUint(Slice(b, 2, 4), 2),
             Z |-> LittleEndianUint(Slice(b, 4, 6), 2)])

(* ValueNumberSequence *)
sizeNSK == 3 * 4
ValueNumberSequenceBytes(v) ==
    LittleEndianPut(NatWord(Len(v), 4))
    \o Concat([i \in 1..Len(v) |->
                 PutFloat32LE(v[i].Time) \o PutFloat32LE(v[i].Value)
                 \o PutFloat32LE(v[i].Envelope)])
ValueNumberSequenceFromBytes(b) ==
    IF Len(b) < 4 THEN Fail(<<>>, "array length must be at least 4", <<>>)
    ELSE LET length == LittleEndianUint(b, 4)
             ba == Slice(b, 4, Len(b))
         IN IF ~LenIsProduct(Len(ba), sizeNSK, length)
            THEN Fail(<<>>, "expected array length of %d (4 + %d * %d)",
                      <<IntSum(4, sizeNSK, length), sizeNSK, IntSum(0, 1, length)>>)
            ELSE Ok([i \in 1..WordNat(length) |->
                       LET bk == Slice(ba, (i - 1) * sizeNSK, Len(ba))
                       IN [Time |-> Float32LE(bk, 0),
                           Value |-> Float32LE(bk, 4),
                           Envelope |-> Float32LE(bk, 8)]])

(* ValueColorSequence *)
sizeCSK == 4 + 3 * 4 + 4
ValueColorSequenceBytes(v) ==
    LittleEndianPut(NatWord(Len(v), 4))
    \o Concat([i \in 1..Len(v) |->
                 PutFloat32LE(v[i].Time) \o PutFloat32LE(v[i].Value.R)
                 \o PutFloat32LE(v[i].Value.G) \o PutFloat32LE(v[i].Value.B)
                 \o PutFloat32LE(v[i].Envelope)])
ValueColorSequenceFromBytes(b) ==
    IF Len(b) < 4 THEN Fail(<<>>, "array length must be at least 4", <<>>)
    ELSE LET length == LittleEndianUint(b, 4)
             ba == Slice(b, 4, Len(b))
         IN IF ~LenIsProduct(Len(ba), sizeCSK, length)
            THEN Fail(<<>>, "expected array length of %d (4 + %d * %d)",
                      <<IntSum(4, sizeCSK, length), sizeCSK, IntSum(0, 1, length)>>)
            ELSE Ok([i \in 1..WordNat(length) |->
                       LET bk == Slice(ba, (i - 1) * sizeCSK, Len(ba))
                       IN [Time |-> Float32LE(bk, 0),
                           Value |-> [R |-> Float32LE(bk, 4),
                                      G |-> Float32LE(bk, 8),
                                      B |-> Float32LE(bk, 12)],
                           Envelope |-> Float32LE(bk, 16)]])

(* ValueNumberRange *)
ZeroNumberRange == [Min |-> Zeros(4), Max |-> Zeros(4)]
ValueNumberRangeBytes(v) == PutFloat32LE(v.Min) \o PutFloat32LE(v.Max)
ValueNumberRangeFromBytes(b) ==
    IF Len(b) # 8 THEN Fail(ZeroNumberRange, "array length must be 8", <<>>)
    ELSE Ok([Min |-> Float32LE(b, 0), Max |-> Float32LE(b, 4)])

(* ValueRect2D *)
ZeroRect2D == [Min |-> ZeroVector2, Max |-> ZeroVector2]
ValueRect2DBytes(v) ==
    CopyAt(CopyAt(Zeros(16), 0, ValueVector2Bytes(v.Min)), 8, ValueVector2Bytes(v.Max))
ValueRect2DFromBytes(b) ==
    IF Len(b) # 16 THEN Fail(ZeroRect2D, "array length must be 16", <<>>)
    ELSE Ok([Min |-> ValueVector2FromBytes(Slice(b, 0, 8)).v,
             Max |-> ValueVector2FromBytes(Slice(b, 8, 16)).v])
ValueRect2DFieldLen == <<4, 4, 4, 4>>
ValueRect2DFieldSet(v, i, b) ==
    CASE i = 0 -> fieldFromBytes(v, ValueFloatFromBytes(b),
                               [v EXCEPT !.Min.X = ValueFloatFromBytes(b).v])
      [] i = 1 -> fieldFromBytes(v, ValueFloatFromBytes(b),
                               [v EXCEPT !.Min.Y = ValueFloatFromBytes(b).v])
      [] i = 2 -> fieldFromBytes(v, ValueFloatFromBytes(b),
                               [v EXCEPT !.Max.X = ValueFloatFromBytes(b).v])
      [] i = 3 -> fieldFromBytes(v, ValueFloatFromBytes(b),
                               [v EXCEPT !.Max.Y = ValueFloatFromBytes(b).v])
      [] OTHER -> Ok(v)
ValueRect2DFieldGet(v, i) ==
    CASE i = 0 -> ValueFloatBytes(v.Min.X)
      [] i = 1 -> ValueFloatBytes(v.Min.Y)
      [] i = 2 -> ValueFloatBytes(v.Max.X)
      [] i = 3 -> ValueFloatBytes(v.Max.Y)
      [] OTHER -> <<>>

(* ValuePhysicalProperties *)
ZeroPhysicalProperties ==
    [CustomPhysics |-> 0, Density |-> Zeros(4), Friction |-> Zeros(4),
     Elasticity |-> Zeros(4), FrictionWeight |-> Zeros(4),
     ElasticityWeight |-> Zeros(4)]
ValuePhysicalPropertiesBytes(v) ==
    IF v.CustomPhysics # 0
    THEN <<v.CustomPhysics>> \o PutFloat32LE(v.Density) \o PutFloat32LE(v.Friction)
         \o PutFloat32LE(v.Elasticity) \o PutFloat32LE(v.FrictionWeight)
         \o PutFloat32LE(v.ElasticityWeight)
    ELSE Zeros(1)
(* Field k (0-based) as the reads p[k*4 : k*4+4] leave it, p being the     *)
(* bytes of p up to its capacity: a slice expression is bounded by the    *)
(* capacity, so the read at k panics when (k+1)*4 > cap(p), and the       *)
(* fields from there on keep their zero.                                  *)
physicalField(p, k) ==
    IF (k + 1) * 4 <= Len(p) THEN Float32LE(p, k * 4) ELSE Zeros(4)
(* rest holds the bytes of the backing array of b past len(b), cap(b) -   *)
(* len(b) of them.                                                        *)
ValuePhysicalPropertiesFromBytes(b, rest) ==
    IF Len(b) = 0 THEN Panic(ZeroPhysicalProperties)
    ELSE IF b[1] = 0 /\ Len(b) # 21
    THEN Fail(ZeroPhysicalProperties, "array length must be 21", <<>>)
    ELSE IF b[1] # 0 /\ Len(b) # 1
    THEN Fail(ZeroPhysicalProperties, "array length must be 1", <<>>)
    ELSE IF b[1] # 0
    THEN LET p == Slice(b, 1, Len(b)) \o rest
             read == [CustomPhysics |-> b[1], Density |-> physicalField(p, 0),
                      Friction |-> physicalField(p, 1),
                      Elasticity |-> physicalField(p, 2),
                      FrictionWeight |-> physicalField(p, 3),
                      ElasticityWeight |-> physicalField(p, 4)]
         IN IF Len(p) < 5 * 4 THEN Panic(read) ELSE Ok(read)
    ELSE Ok([CustomPhysics |-> b[1], Density |-> Zeros(4), Friction |-> Zeros(4),
             Elasticity |-> Zeros(4), FrictionWeight |-> Zeros(4),
             ElasticityWeight |-> Zeros(4)])

(* ValueColor3uint8 *)
ZeroColor3uint8 == [R |-> 0, G |-> 0, B |-> 0]
ValueColor3uint8Bytes(v) == <<v.R, v.G, v.B>>
ValueColor3uint8FromBytes(b) ==
    IF Len(b) # 3 THEN Fail(ZeroColor3uint8, "array length must be 3", <<>>)
    ELSE Ok([R |-> b[1], G |-> b[2], B |-> b[3]])
ValueColor3uint8FieldLen == <<1, 1, 1>>
ValueColor3uint8FieldSet(v, i, b) ==
    CASE i \in {0, 1, 2} /\ Len(b) = 0 -> Panic(v)
      [] i = 0 /\ Len(b) > 0 -> Ok([v EXCEPT !.R = b[1]])
      [] i = 1 /\ Len(b) > 0 -> Ok([v EXCEPT !.G = b[1]])
      [] i = 2 /\ Len(b) > 0 -> Ok([v EXCEPT !.B = b[1]])
      [] OTHER -> Ok(v)
ValueColor3uint8FieldGet(v, i) ==
    CASE i = 0 -> <<v.R>>
      [] i = 1 -> <<v.G>>
      [] i = 2 -> <<v.B>>
      [] OTHER -> <<>>

(* ValueInt64 *)
ValueInt64Bytes(v) == BigEndianPut(encodeZigzag64(v))
ValueInt64FromBytes(b) ==
    IF Len(b) # 8 THEN Fail(Zeros(8), "array length must be 8", <<>>)
    ELSE Ok(decodeZigzag64(BigEndianUint(b, 8)))

(* ValueSharedString *)
ValueSharedStringBytes(v) == BigEndianPut(v)
ValueSharedStringFromBytes(b) ==
    IF Len(b) # 4 THEN Fail(Zeros(4), "array length must be 4", <<>>)
    ELSE Ok(BigEndianUint(b, 4))

----------------------------------------------------------------------------
(* The Value interface: dispatch on the dynamic type of a value. *)

(* v.Bytes() *)
Bytes(val) ==
    LET t == val.type
        v == val.v
    IN CASE t = TypeString -> ValueStringBytes(v)
         [] t = TypeBool -> ValueBoolBytes(v)
         [] t = TypeInt -> ValueIntBytes(v)
         [] t = TypeFloat -> ValueFloatBytes(v)
         [] t = TypeDouble -> ValueDoubleBytes(v)
         [] t = TypeUDim -> ValueUDimBytes(v)
         [] t = TypeUDim2 -> ValueUDim2Bytes(v)
         [] t = TypeRay -> ValueRayBytes(v)
         [] t = TypeFaces -> ValueFacesBytes(v)
         [] t = TypeAxes -> ValueAxesBytes(v)
         [] t = TypeBrickColor -> ValueBrickColorBytes(v)
         [] t = TypeColor3 -> ValueColor3Bytes(v)
         [] t = TypeVector2 -> ValueVector2Bytes(v)
         [] t = TypeVector3 -> ValueVector3Bytes(v)
         [] t = TypeVector2int16 -> ValueVector2int16Bytes(v)
         [] t = TypeCFrame -> ValueCFrameBytes(v)
         [] t = TypeToken -> ValueTokenBytes(v)
         [] t = TypeReference -> ValueReferenceBytes(v)
         [] t = TypeVector3int16 -> ValueVector3int16Bytes(v)
         [] t = TypeNumberSequence -> ValueNumberSequenceBytes(v)
         [] t = TypeColorSequence -> ValueColorSequenceBytes(v)
         [] t = TypeNumberRange -> ValueNumberRangeBytes(v)
         [] t = TypeRect2D -> ValueRect2DBytes(v)
         [] t = TypePhysicalProperties -> ValuePhysicalPropertiesBytes(v)
         [] t = TypeColor3uint8 -> ValueColor3uint8Bytes(v)
         [] t = TypeInt64 -> ValueInt64Bytes(v)
         [] t = TypeSharedString -> ValueSharedStringBytes(v)

(* valueGenerators[t]() followed by v.FromBytes(b), for a valid t; rest   *)
(* holds the bytes of the backing array of b past len(b).                 *)
FromBytes(t, b, rest) ==
    CASE t = TypeString -> ValueStringFromBytes(b)
      [] t = TypeBool -> ValueBoolFromBytes(b)
      [] t = TypeInt -> ValueIntFromBytes(b)
      [] t = TypeFloat -> ValueFloatFromBytes(b)
      [] t = TypeDouble -> ValueDoubleFromBytes(b)
      [] t = TypeUDim -> ValueUDimFromBytes(b)
      [] t = TypeUDim2 -> ValueUDim2FromBytes(b)
      [] t = TypeRay -> ValueRayFromBytes(b)
      [] t = TypeFaces -> ValueFacesFromBytes(b)
      [] t = TypeAxes -> ValueAxesFromBytes(b)
      [] t = TypeBrickColor -> ValueBrickColorFromBytes(b)
      [] t = TypeColor3 -> ValueColor3FromBytes(b)
      [] t = TypeVector2 -> ValueVector2FromBytes(b)
      [] t = TypeVector3 -> ValueVector3FromBytes(b)
      [] t = TypeVector2int16 -> ValueVector2int16FromBytes(b)
      [] t = TypeCFrame -> ValueCFrameFromBytes(b)
      [] t = TypeToken -> ValueTokenFromBytes(b)
      [] t = TypeReference -> ValueReferenceFromBytes(b)
      [] t = TypeVector3int16 -> ValueVector3int16FromBytes(b)
      [] t = TypeNumberSequence -> ValueNumberSequenceFromBytes(b)
      [] t = TypeColorSequence -> ValueColorSequenceFromBytes(b)
      [] t = TypeNumberRange -> ValueNumberRangeFromBytes(b)
      [] t = TypeRect2D -> ValueRect2DFromBytes(b)
      [] t = TypePhysicalProperties -> ValuePhysicalPropertiesFromBytes(b, rest)
      [] t = TypeColor3uint8 -> ValueColor3uint8FromBytes(b)
      [] t = TypeInt64 -> ValueInt64FromBytes(b)
      [] t = TypeSharedString -> ValueSharedStringFromBytes(b)

(* The kinds that implement the fielder interface, and its methods. *)
IsFielder(t) ==
    t \in {TypeUDim, TypeUDim2, TypeColor3, TypeVector2, TypeVector3,
           TypeRect2D, TypeColor3uint8}

fieldLen(t) ==
    CASE t = TypeUDim -> ValueUDimFieldLen
      [] t = TypeUDim2 -> ValueUDim2FieldLen
      [] t = TypeColor3 -> ValueColor3FieldLen
      [] t = TypeVector2 -> ValueVector2FieldLen
      [] t = TypeVector3 -> ValueVector3FieldLen
      [] t = TypeRect2D -> ValueRect2DFieldLen
      [] t = TypeColor3uint8 -> ValueColor3uint8FieldLen

fieldSet(t, v, i, b) ==
    CASE t = TypeUDim -> ValueUDimFieldSet(v, i, b)
      [] t = TypeUDim2 -> ValueUDim2FieldSet(v, i, b)
      [] t = TypeColor3 -> ValueColor3FieldSet(v, i, b)
      [] t = TypeVector2 -> ValueVector2FieldSet(v, i, b)
      [] t = TypeVector3 -> ValueVector3FieldSet(v, i, b)
      [] t = TypeRect2D -> ValueRect2DFieldSet(v, i, b)
      [] t = TypeColor3uint8 -> ValueColor3uint8FieldSet(v, i, b)

fieldGet(t, v, i) ==
    CASE t = TypeUDim -> ValueUDimFieldGet(v, i)
      [] t = TypeUDim2 -> ValueUDim2FieldGet(v, i)
      [] t = TypeColor3 -> ValueColor3FieldGet(v, i)
      [] t = TypeVector2 -> ValueVector2FieldGet(v, i)
      [] t = TypeVector3 -> ValueVector3FieldGet(v, i)
      [] t = TypeRect2D -> ValueRect2DFieldGet(v, i)
      [] t = TypeColor3uint8 -> ValueColor3uint8FieldGet(v, i)

(* newValue(): the zero value a generator returns. *)
NewValue(t) ==
    CASE t = TypeUDim -> ZeroUDim
      [] t = TypeUDim2 -> ZeroUDim2
      [] t = TypeColor3 -> ZeroColor3
      [] t = TypeVector2 -> ZeroVector2
      [] t = TypeVector3 -> ZeroVector3
      [] t = TypeRect2D -> ZeroRect2D
      [] t = TypeColor3uint8 -> ZeroColor3uint8

----------------------------------------------------------------------------
(* Array codec, arrays.go *)

Value(t, v) == [type |-> t, v |-> v]

(* bytes[i], bytes[j] = bytes[j], bytes[i] with 0-based indices. *)
Swap(bytes, i, j) ==
    [k \in 1..Len(bytes) |->
        IF k = i + 1 THEN bytes[j + 1]
        ELSE IF k = j + 1 THEN bytes[i + 1] ELSE bytes[k]]

(* A variant of the in-place loop whose inner loop runs over every column *)
(* instead of those below the diagonal, so that each pair is swapped      *)
(* twice: the transpose property must tell it from SwapLoop.              *)
RECURSIVE SwapLoopAll(_, _, _, _)
SwapLoopAll(bytes, r, c, cols) ==
    IF r >= cols THEN bytes
    ELSE IF c >= cols THEN SwapLoopAll(bytes, r + 1, 0, cols)
    ELSE SwapLoopAll(Swap(bytes, r * cols + c, c * cols + r), r, c + 1, cols)

(* The in-place transpose loop of a square matrix, from row r, column c. *)
RECURSIVE SwapLoop(_, _, _, _)
SwapLoop(bytes, r, c, cols) ==
    IF r >= cols THEN bytes
    ELSE IF c >= r THEN SwapLoop(bytes, r + 1, 0, cols)
    ELSE SwapLoop(Swap(bytes, r * cols + c, c * cols + r), r, c + 1, cols)

(* The scratch-buffer transpose: tmp[c*rows+r] = bytes[r*cols+c]. *)
Transpose(bytes, rows, cols) ==
    [k \in 1..Len(bytes) |->
        LET c == (k - 1) \div rows
            r == (k - 1) % rows
        IN bytes[r * cols + c + 1]]

(* A variant without the test that length divides the length of the      *)
(* buffer, which then leaves such a buffer alone and reports no error:    *)
(* the property on the argument errors must tell it from interleave.      *)
interleaveUnchecked(bytes, length) ==
    IF length <= 0
    THEN [bytes |-> bytes, err |-> [msg |-> "length must be greater than 0", args |-> <<>>]]
    ELSE IF Len(bytes) % length # 0
    THEN [bytes |-> bytes, err |-> [msg |-> "", args |-> <<>>]]
    ELSE [bytes |-> IF Len(bytes) \div length = length
                    THEN SwapLoop(bytes, 0, 0, length)
                    ELSE Transpose(bytes, Len(bytes) \div length, length),
          err |-> [msg |-> "", args |-> <<>>]]

(* func interleave(bytes []byte, length int) error; bytes is the content  *)
(* of the buffer after the call.                                          *)
interleave(bytes, length) ==
    IF length <= 0
    THEN [bytes |-> bytes, err |-> Err("length must be greater than 0", <<>>)]
    ELSE IF Len(bytes) % length # 0
    THEN [bytes |-> bytes, err |-> Err("length must be a divisor of array length", <<>>)]
    ELSE LET cols == length
             rows == Len(bytes) \div length
         IN [bytes |-> IF rows = cols THEN SwapLoop(bytes, 0, 0, cols)
                       ELSE Transpose(bytes, rows, cols),
             err |-> Nil]

(* func deinterleave(bytes []byte, size int) error *)
deinterleave(bytes, size) ==
    IF size <= 0
    THEN [bytes |-> bytes, err |-> Err("size must be greater than 0", <<>>)]
    ELSE IF Len(bytes) % size # 0
    THEN [bytes |-> bytes, err |-> Err("size must be a divisor of array length", <<>>)]
    ELSE interleave(bytes, Len(bytes) \div size)

(* Sum of the first n entries of a sequence of numbers. *)
RECURSIVE SumTo(_, _)
SumTo(s, n) == IF n = 0 THEN 0 ELSE s[n] + SumTo(s, n - 1)

(* The format text of the element-type error of ValuesToBytes and of      *)
(* appendValueBytes, "element %d is of type Q%sQ where Q%sQ is expected"  *)
(* with a back quote for each Q.  A string literal holds a back quote     *)
(* only when an apostrophe follows it, so q is cut from such a pair.      *)
ElementTypeFormat ==
    LET q == SubSeq("`'", 1, 1)
    IN  "element %d is of type " \o q \o "%s" \o q
            \o " where " \o q \o "%s" \o q \o " is expected"

(* A variant of the element-type check that reports the last element of  *)
(* the wrong type instead of the first: the properties on the error of a  *)
(* kind mismatch must tell it from elementTypeError.                      *)
elementTypeErrorLast(t, a, i) ==
    IF \A k \in (i + 1)..Len(a) : a[k].type = t THEN [msg |-> "", args |-> <<>>]
    ELSE [msg |-> ElementTypeFormat,
          args |-> <<(CHOOSE k \in (i + 1)..Len(a) :
                         /\ a[k].type # t
                         /\ \A j \in (k + 1)..Len(a) : a[j].type = t) - 1,
                     String(a[CHOOSE k \in (i + 1)..Len(a) :
                                 /\ a[k].type # t
                                 /\ \A j \in (k + 1)..Len(a) : a[j].type = t].type),
                     String(t)>>]

(* The element-type check at the head of ValuesToBytes and in the loop of *)
(* appendValueBytes: the error for the first element, from index i on,    *)
(* whose type is not t, or nil.                                           *)
RECURSIVE elementTypeError(_, _, _)
elementTypeError(t, a, i) ==
    IF i >= Len(a) THEN Nil
    ELSE IF a[i + 1].type # t
    THEN Err(ElementTypeFormat,
             <<i, String(a[i + 1].type), String(t)>>)
    ELSE elementTypeError(t, a, i + 1)

(* The element-type check of interleaveFields, whose message has the type *)
(* names bare.                                                            *)
RECURSIVE fieldsTypeError(_, _, _)
fieldsTypeError(id, a, i) ==
    IF i >= Len(a) THEN Nil
    ELSE IF a[i + 1].type # id
    THEN Err("element %d is of type %s where %s is expected",
             <<i, String(a[i + 1].type), String(id)>>)
    ELSE fieldsTypeError(id, a, i + 1)

(* The first error among the results rs, or nil. *)
RECURSIVE FirstErr(_)
FirstErr(rs) ==
    IF rs = <<>> THEN Nil
    ELSE IF ~IsNil(Head(rs).err) THEN Head(rs).err ELSE FirstErr(Tail(rs))

(* The end of interleaveFields: got[i][f] is fieldGet(f) of value i, done *)
(* the outcome of interleaving each field slice.                          *)
fieldsInterleaved(nbytes, got, done) ==
    IF \E i \in 1..Len(got), f \in 1..Len(nbytes) : Len(got[i][f]) # nbytes[f]
    THEN [b |-> <<>>, err |-> Nil, panic |-> TRUE]
    ELSE IF ~IsNil(FirstErr(done))
    THEN [b |-> <<>>, err |-> FirstErr(done), panic |-> FALSE]
    ELSE [b |-> Concat([f \in 1..Len(nbytes) |-> done[f].bytes]),
          err |-> Nil, panic |-> FALSE]

(* A variant that leaves every field slice as the fields were copied     *)
(* into it, without interleaving it: the property on the layout of the    *)
(* field-split kinds must tell it from fieldSlices.                       *)
fieldSlicesPlain(nbytes, got) ==
    [f \in 1..Len(nbytes) |->
        [bytes |-> Concat([i \in 1..Len(got) |-> got[i][f]]),
         err |-> [msg |-> "", args |-> <<>>]]]

(* The field slices of interleaveFields, each interleaved. *)
fieldSlices(nbytes, got) ==
    [f \in 1..Len(nbytes) |->
        interleave(Concat([i \in 1..Len(got) |-> got[i][f]]), nbytes[f])]

(* The loop of interleaveFields that fills the field slices. *)
fieldsOf(id, a, nbytes) ==
    [i \in 1..Len(a) |-> [f \in 1..Len(nbytes) |-> fieldGet(id, a[i].v, f - 1)]]

fieldsGot(nbytes, got) == fieldsInterleaved(nbytes, got, fieldSlices(nbytes, got))

(* func interleaveFields(id Type, a []Value) (b []byte, err error) *)
interleaveFields(id, a) ==
    IF Len(a) = 0 THEN [b |-> <<>>, err |-> Nil, panic |-> FALSE]
    ELSE IF \E i \in 1..Len(a) :
              /\ ~IsFielder(a[i].type)
              /\ \A j \in 1..(i - 1) : a[j].type = id
    THEN [b |-> <<>>, err |-> Nil, panic |-> TRUE]
    ELSE IF \E i \in 1..Len(a) : a[i].type # id
    THEN [b |-> <<>>, err |-> fieldsTypeError(id, a, 0), panic |-> FALSE]
    ELSE fieldsGot(fieldLen(a[1].type), fieldsOf(id, a, fieldLen(a[1].type)))

(* The fields of value i (0-based) set from the deinterleaved columns;    *)
(* the error fieldSet returns is dropped.                                 *)
RECURSIVE setFields(_, _, _, _, _, _)
setFields(id, val, cols, nbytes, i, f) ==
    IF f >= Len(nbytes) THEN val
    ELSE setFields(id,
                   fieldSet(id, val, f,
                            Slice(cols[f + 1], i * nbytes[f + 1],
                                  i * nbytes[f + 1] + nbytes[f + 1])).v,
                   cols, nbytes, i, f + 1)

(* The end of deinterleaveFields: done is the outcome of deinterleaving   *)
(* each field slice of the buffer.                                        *)
fieldsDeinterleaved(id, nbytes, nvalues, done) ==
    IF ~IsNil(FirstErr(done))
    THEN [a |-> <<>>, err |-> FirstErr(done), panic |-> FALSE,
          b |-> Concat([f \in 1..Len(nbytes) |-> done[f].bytes])]
    ELSE [a |-> [i \in 1..nvalues |->
                   Value(id, setFields(id, NewValue(id),
                                       [f \in 1..Len(nbytes) |-> done[f].bytes],
                                       nbytes, i - 1, 0))],
          err |-> Nil, panic |-> FALSE,
          b |-> Concat([f \in 1..Len(nbytes) |-> done[f].bytes])]

(* The body of deinterleaveFields for a buffer that is not empty and a    *)
(* kind with fields of nbytes bytes, tbytes bytes in all.                 *)
deinterleaveValues(id, b, nbytes, tbytes) ==
    IF Len(b) % tbytes # 0
    THEN [a |-> <<>>, b |-> b, panic |-> FALSE,
          err |-> Err("length of array (%d) is not divisible by value byte size (%d)",
                      <<Len(b), tbytes>>)]
    ELSE fieldsDeinterleaved(id, nbytes, Len(b) \div tbytes,
            [f \in 1..Len(nbytes) |->
               deinterleave(Slice(b, (Len(b) \div tbytes) * SumTo(nbytes, f - 1),
                                  (Len(b) \div tbytes) * SumTo(nbytes, f)),
                            nbytes[f])])

(* func deinterleaveFields(id Type, b []byte) (a []Value, err error); b   *)
(* is the content of the caller's buffer after the call.                  *)
deinterleaveFields(id, b) ==
    IF Len(b) = 0 THEN [a |-> <<>>, err |-> Nil, b |-> b, panic |-> FALSE]
    ELSE IF ~Valid(id)
    THEN [a |-> <<>>, b |-> b, panic |-> FALSE,
          err |-> Err("type identifier 0x%X is not a valid Type.",
                      <<FormatHex(String(id))>>)]
    ELSE IF ~IsFielder(id)
    THEN [a |-> <<>>, err |-> Nil, b |-> b, panic |-> TRUE]
    ELSE deinterleaveValues(id, b, fieldLen(id), SumTo(fieldLen(id), Len(fieldLen(id))))

(* func appendValueBytes(id Type, a []Value) (b []byte, err error) *)
appendValueBytes(id, a) ==
    IF \E i \in 1..Len(a) : a[i].type # id
    THEN [b |-> <<>>, err |-> elementTypeError(id, a, 0)]
    ELSE [b |-> Concat([i \in 1..Len(a) |-> Bytes(a[i])]), err |-> Nil]

(* A variant of the turn that hands back the values read so far together  *)
(* with the error of a later turn: the property that an error comes with  *)
(* no values must tell it from appended.                                  *)
appendedPartial(id, r, more) ==
    IF r.panic THEN [a |-> <<>>, err |-> [msg |-> "", args |-> <<>>], panic |-> TRUE]
    ELSE IF r.err.msg # "" THEN [a |-> <<>>, err |-> r.err, panic |-> FALSE]
    ELSE IF more.panic THEN more
    ELSE [a |-> <<[type |-> id, v |-> r.v]>> \o more.a, err |-> more.err,
          panic |-> FALSE]

(* One turn of a loop of appendByteValues: r is the outcome of FromBytes  *)
(* on the next value and more the outcome of the turns after it.          *)
appended(id, r, more) ==
    IF r.panic THEN [a |-> <<>>, err |-> Nil, panic |-> TRUE]
    ELSE IF ~IsNil(r.err) THEN [a |-> <<>>, err |-> r.err, panic |-> FALSE]
    ELSE IF more.panic \/ ~IsNil(more.err) THEN more
    ELSE [a |-> <<Value(id, r.v)>> \o more.a, err |-> Nil, panic |-> FALSE]

(* A variant of the variable-length loop that ends without an error when  *)
(* fewer than 4 bytes are left: the property that only whole records      *)
(* decode must tell it from appendVariable.                               *)
RECURSIVE appendVariableStops(_, _, _)
appendVariableStops(id, ba, field) ==
    IF Len(ba) < 4 THEN [a |-> <<>>, err |-> [msg |-> "", args |-> <<>>], panic |-> FALSE]
    ELSE IF WordGtNat(LittleEndianUint(ba, 4), (Len(ba) - 4) \div field)
    THEN [a |-> <<>>, panic |-> FALSE,
          err |-> [msg |-> "expected %d more bytes in array",
                   args |-> <<IntSum(0, field, LittleEndianUint(ba, 4))>>]]
    ELSE appended(id,
                  FromBytes(id, Slice(ba, 0, 4 + WordNat(LittleEndianUint(ba, 4)) * field),
                            Slice(ba, 4 + WordNat(LittleEndianUint(ba, 4)) * field, Len(ba))),
                  appendVariableStops(id,
                                      Slice(ba, 4 + WordNat(LittleEndianUint(ba, 4)) * field,
                                            Len(ba)),
                                      field))

(* The variable-length loop of appendByteValues over what is left, ba. *)
RECURSIVE appendVariable(_, _, _)
appendVariable(id, ba, field) ==
    IF Len(ba) = 0 THEN [a |-> <<>>, err |-> Nil, panic |-> FALSE]
    ELSE IF Len(ba) < 4
    THEN [a |-> <<>>, err |-> Err("expected 4 more bytes in array", <<>>),
          panic |-> FALSE]
    ELSE IF WordGtNat(LittleEndianUint(ba, 4), (Len(ba) - 4) \div field)
    THEN [a |-> <<>>, panic |-> FALSE,
          err |-> Err("expected %d more bytes in array",
                      <<IntSum(0, field, LittleEndianUint(ba, 4))>>)]
    ELSE appended(id,
                  FromBytes(id, Slice(ba, 0, 4 + WordNat(LittleEndianUint(ba, 4)) * field),
                            Slice(ba, 4 + WordNat(LittleEndianUint(ba, 4)) * field, Len(ba))),
                  appendVariable(id,
                                 Slice(ba, 4 + WordNat(LittleEndianUint(ba, 4)) * field,
                                       Len(ba)),
                                 field))

(* The outcome of FromBytes on each whole chunk of size bytes of b, in    *)
(* the order of the fixed-size loop of appendByteValues, which runs while *)
(* i+size <= len(b).                                                      *)
fixedChunks(id, b, size) ==
    [k \in 1..(Len(b) \div size) |->
        FromBytes(id, Slice(b, (k - 1) * size, k * size), Slice(b, k * size, Len(b)))]

(* The turn at which the fixed-size loop stops early, 0 if it does not. *)
firstFailure(rs) ==
    IF \A k \in 1..Len(rs) : ~rs[k].panic /\ IsNil(rs[k].err) THEN 0
    ELSE CHOOSE k \in 1..Len(rs) :
            /\ rs[k].panic \/ ~IsNil(rs[k].err)
            /\ \A j \in 1..(k - 1) : ~rs[j].panic /\ IsNil(rs[j].err)

(* The outcome of the fixed-size loop that stops at turn k (0: runs out). *)
fixedAppended(id, rs, k) ==
    IF k = 0
    THEN [a |-> [i \in 1..Len(rs) |-> Value(id, rs[i].v)], err |-> Nil, panic |-> FALSE]
    ELSE IF rs[k].panic THEN [a |-> <<>>, err |-> Nil, panic |-> TRUE]
    ELSE [a |-> <<>>, err |-> rs[k].err, panic |-> FALSE]

fixedStopped(id, rs) == fixedAppended(id, rs, firstFailure(rs))

(* The fixed-size loop of appendByteValues. *)
appendFixed(id, b, size) == fixedStopped(id, fixedChunks(id, b, size))

(* func appendByteValues(id Type, b []byte, size int, field int) *)
appendByteValues(id, b, size, field) ==
    IF size < 0 THEN appendVariable(id, b, field)
    ELSE appendFixed(id, b, size)

(* A variant of the Vector2int16 cases that leaves err nil: the property  *)
(* on Vector2int16 arrays must tell it from ErrNotImplemented.            *)
ErrNotImplementedUnset == [msg |-> "", args |-> <<>>]

(* errors.New("not implemented") of the Vector2int16 cases. *)
ErrNotImplemented == Err("not implemented", <<>>)

(* fmt.Errorf("invalid type (%02X)", t) *)
ErrInvalidType(t) == Err("invalid type (%02X)", <<FormatHex(String(t))>>)

(* A variant that writes the rotation of every value, whatever its        *)
(* Special: the properties on the layout of a CFrame blob must tell it    *)
(* from cframeMatrix.                                                     *)
cframeMatrixAlways(cf) ==
    <<cf.Special>> \o Concat([i \in 1..9 |-> PutFloat32LE(cf.Rotation[i])])

(* case TypeCFrame of ValuesToBytes: the matrix part of one value. *)
cframeMatrix(cf) ==
    <<cf.Special>>
    \o (IF cf.Special = 0
        THEN Concat([i \in 1..9 |-> PutFloat32LE(cf.Rotation[i])])
        ELSE <<>>)

(* A variant that stores every reference as it is instead of its          *)
(* difference from the one before: the properties on the delta coding of  *)
(* references must tell it from referenceDeltas.                          *)
referenceDeltasNot(a) ==
    Concat([i \in 1..Len(a) |-> ValueReferenceBytes(a[i].v)])

(* case TypeReference of ValuesToBytes: the bytes before the interleave. *)
referenceDeltas(a) ==
    Concat([i \in 1..Len(a) |->
              IF i = 1 THEN ValueReferenceBytes(a[i].v)
              ELSE ValueReferenceBytes(Sub(a[i].v, a[i - 1].v))])

(* A variant that writes the five fields of every value, whatever its     *)
(* CustomPhysics: the property on the layout of a PhysicalProperties blob *)
(* must tell it from physicalPropertiesBytes.                             *)
physicalPropertiesBytesAlways(pp) ==
    <<pp.CustomPhysics>>
    \o PutFloat32LE(pp.Density) \o PutFloat32LE(pp.Friction)
    \o PutFloat32LE(pp.Elasticity) \o PutFloat32LE(pp.FrictionWeight)
    \o PutFloat32LE(pp.ElasticityWeight)

(* case TypePhysicalProperties of ValuesToBytes: the bytes of one value. *)
physicalPropertiesBytes(pp) ==
    <<pp.CustomPhysics>>
    \o (IF pp.CustomPhysics # 0
        THEN PutFloat32LE(pp.Density) \o PutFloat32LE(pp.Friction)
             \o PutFloat32LE(pp.Elasticity) \o PutFloat32LE(pp.FrictionWeight)
             \o PutFloat32LE(pp.ElasticityWeight)
        ELSE <<>>)

(* A variant that leaves out the interleave after appendValueBytes: the   *)
(* property on the layout of the stride-4 kinds must tell it from         *)
(* thenInterleave.                                                        *)
thenInterleaveNot(r, length) == [b |-> r.b, err |-> r.err, panic |-> FALSE]

(* if b, err = appendValueBytes(t, a); err != nil { break };              *)
(* err = interleave(b, length), r being the outcome of appendValueBytes.  *)
thenInterleave(r, length) ==
    IF ~IsNil(r.err) THEN [b |-> r.b, err |-> r.err, panic |-> FALSE]
    ELSE [b |-> interleave(r.b, length).bytes, err |-> interleave(r.b, length).err,
          panic |-> FALSE]

(* The outcome of ValuesToBytes from an outcome without a panic. *)
noPanic(r) == [b |-> r.b, err |-> r.err, panic |-> FALSE]

(* The outcome of an interleave as the outcome of ValuesToBytes. *)
interleaved(il) == [b |-> il.bytes, err |-> il.err, panic |-> FALSE]

(* b = append(b, pb...) of case TypeCFrame, pb from interleaveFields. *)
withPositions(b, pb) == [b |-> b \o pb.b, err |-> Nil, panic |-> pb.panic]

(* func ValuesToBytes(t Type, a []Value) (b []byte, err error) *)
ValuesToBytes(t, a) ==
    IF ~Valid(t) THEN [b |-> <<>>, err |-> ErrInvalidType(t), panic |-> FALSE]
    ELSE IF ~IsNil(elementTypeError(t, a, 0))
    THEN [b |-> <<>>, err |-> elementTypeError(t, a, 0), panic |-> FALSE]
    ELSE CASE t \in {TypeString, TypeBool, TypeDouble, TypeRay, TypeFaces, TypeAxes,
                     TypeVector3int16, TypeNumberSequence, TypeColorSequence,
                     TypeNumberRange} ->
                noPanic(appendValueBytes(t, a))
           [] t \in {TypeInt, TypeFloat, TypeBrickColor, TypeToken, TypeSharedString} ->
                thenInterleave(appendValueBytes(t, a), 4)
           [] t = TypeInt64 ->
                thenInterleave(appendValueBytes(t, a), 8)
           [] t \in {TypeUDim, TypeUDim2, TypeColor3, TypeVector2, TypeVector3,
                     TypeRect2D, TypeColor3uint8} ->
                interleaveFields(t, a)
           [] t = TypeCFrame ->
                withPositions(
                    Concat([i \in 1..Len(a) |-> cframeMatrix(a[i].v)]),
                    interleaveFields(
                        TypeVector3,
                        [i \in 1..Len(a) |-> Value(TypeVector3, a[i].v.Position)]))
           [] t = TypeReference ->
                IF Len(a) = 0 THEN [b |-> <<>>, err |-> Nil, panic |-> FALSE]
                ELSE interleaved(interleave(referenceDeltas(a), 4))
           [] t = TypePhysicalProperties ->
                [b |-> Concat([i \in 1..Len(a) |-> physicalPropertiesBytes(a[i].v)]),
                 err |-> Nil, panic |-> FALSE]
           [] t = TypeVector2int16 ->
                [b |-> <<>>, err |-> ErrNotImplemented, panic |-> FALSE]

(* One turn of the matrix loop of case TypeCFrame of ValuesFromBytes: the *)
(* matrix read at offset i (0-based) of b, and more, the outcome of the   *)
(* turns after it.                                                        *)
matrixRead(b, i, more) ==
    IF b[i + 1] = 0 /\ Len(b) - (i + 1) < 9 * 4
    THEN [cfs |-> <<>>, i |-> i + 1,
          err |-> Err("expected %d more bytes in array", <<9 * 4>>)]
    ELSE IF ~IsNil(more.err) THEN more
    ELSE [cfs |-> << [Special |-> b[i + 1],
                      Rotation |-> IF b[i + 1] = 0
                                   THEN [k \in 1..9 |->
                                           Float32LE(Slice(b, i + 1, Len(b)), (k - 1) * 4)]
                                   ELSE [k \in 1..9 |-> Zeros(4)],
                      Position |-> ZeroVector3] >> \o more.cfs,
          i |-> more.i, err |-> Nil]

(* case TypeCFrame of ValuesFromBytes: the loop that reads the matrix     *)
(* data from byte offset i, n being the expected size of the position     *)
(* data.  Yields the matrices read and the offset reached.                *)
RECURSIVE cframeMatrices(_, _, _)
cframeMatrices(b, i, n) ==
    IF ~(Len(b) - i > n) THEN [cfs |-> <<>>, i |-> i, err |-> Nil]
    ELSE matrixRead(b, i,
                    cframeMatrices(b, IF b[i + 1] = 0 /\ Len(b) - (i + 1) >= 9 * 4
                                      THEN i + 1 + 9 * 4 ELSE i + 1,
                                   n + 12))

(* A variant of the end of case TypeCFrame without the test that there    *)
(* are as many positions as matrices, which pairs as many as there are of *)
(* both: the property that a CFrame blob must be covered exactly must     *)
(* tell it from cframesRead.                                              *)
cframesReadUnchecked(b, m, d) ==
    IF d.panic \/ d.err.msg # ""
    THEN [a |-> d.a, err |-> d.err, b |-> Slice(b, 0, m.i) \o d.b, panic |-> d.panic]
    ELSE [a |-> [i \in 1..(IF Len(d.a) < Len(m.cfs) THEN Len(d.a) ELSE Len(m.cfs)) |->
                   [type |-> TypeCFrame, v |-> [m.cfs[i] EXCEPT !.Position = d.a[i].v]]],
          err |-> [msg |-> "", args |-> <<>>],
          b |-> Slice(b, 0, m.i) \o d.b, panic |-> FALSE]

(* The end of case TypeCFrame of ValuesFromBytes: m is the outcome of the *)
(* matrix loop, d of deinterleaveFields on the rest of the buffer.        *)
cframesRead(b, m, d) ==
    IF d.panic \/ ~IsNil(d.err)
    THEN [a |-> d.a, err |-> d.err, b |-> Slice(b, 0, m.i) \o d.b, panic |-> d.panic]
    ELSE IF Len(d.a) # Len(m.cfs)
    THEN [a |-> <<>>, b |-> Slice(b, 0, m.i) \o d.b, panic |-> FALSE,
          err |-> Err("number of positions does not match number of matrices", <<>>)]
    ELSE [a |-> [i \in 1..Len(d.a) |->
                   Value(TypeCFrame, [m.cfs[i] EXCEPT !.Position = d.a[i].v])],
          err |-> Nil, b |-> Slice(b, 0, m.i) \o d.b, panic |-> FALSE]

cframePositions(b, m) ==
    IF ~IsNil(m.err) THEN [a |-> <<>>, err |-> m.err, b |-> b, panic |-> FALSE]
    ELSE cframesRead(b, m, deinterleaveFields(TypeVector3, Slice(b, m.i, Len(b))))

(* A variant of the turn that appends the value as read, without adding  *)
(* the one before it: the property on the delta coding of references must *)
(* tell it from referenceRead.                                            *)
referenceReadNot(a, ref) == Append(a, [type |-> TypeReference, v |-> ref])

(* One turn of the loop of case TypeReference of ValuesFromBytes: the     *)
(* value read at index n - 1 appended to the earlier ones, a.             *)
referenceRead(a, ref) ==
    Append(a, Value(TypeReference,
                    IF Len(a) > 0 THEN Add(a[Len(a)].v, ref) ELSE ref))

(* case TypeReference of ValuesFromBytes: the values of the deinterleaved *)
(* buffer bc up to index n (exclusive), relative turned absolute.         *)
RECURSIVE referenceValues(_, _)
referenceValues(bc, n) ==
    IF n = 0 THEN <<>>
    ELSE referenceRead(referenceValues(bc, n - 1),
                       ValueReferenceFromBytes(Slice(bc, (n - 1) * 4, (n - 1) * 4 + 4)).v)

referencesRead(b, bc) ==
    IF ~IsNil(bc.err) THEN [a |-> <<>>, err |-> bc.err, b |-> b, panic |-> FALSE]
    ELSE [a |-> referenceValues(bc.bytes, Len(bc.bytes) \div 4),
          err |-> Nil, b |-> b, panic |-> FALSE]

(* pp.FromBytes by hand in case TypePhysicalProperties of ValuesFromBytes: *)
(* the value whose CustomPhysics byte is cp and whose floats, if any, are  *)
(* at the head of p.                                                       *)
physicalPropertiesRead(cp, p) ==
    Value(TypePhysicalProperties,
          IF cp # 0
          THEN [CustomPhysics |-> cp,
                Density |-> Float32LE(p, 0), Friction |-> Float32LE(p, 4),
                Elasticity |-> Float32LE(p, 8),
                FrictionWeight |-> Float32LE(p, 12),
                ElasticityWeight |-> Float32LE(p, 16)]
          ELSE ZeroPhysicalProperties)

(* case TypePhysicalProperties of ValuesFromBytes: the loop from offset i *)
(* (0-based) of b, a being the values appended so far.                    *)
RECURSIVE physicalPropertiesValues(_, _, _)
physicalPropertiesValues(b, i, a) ==
    IF ~(i < Len(b)) THEN [a |-> a, err |-> Nil]
    ELSE IF b[i + 1] # 0 /\ Len(b) - (i + 1) < 5 * 4
    THEN [a |-> <<>>, err |-> Err("expected %d more bytes in array", <<5 * 4>>)]
    ELSE physicalPropertiesValues(
             b, IF b[i + 1] # 0 THEN i + 1 + 5 * 4 ELSE i + 1,
             Append(a, physicalPropertiesRead(b[i + 1], Slice(b, i + 1, Len(b)))))

(* The outcome of ValuesFromBytes from that of a helper that leaves the   *)
(* caller's buffer b alone.                                               *)
bufferKept(r, b) == [a |-> r.a, err |-> r.err, b |-> b, panic |-> FALSE]
bufferKeptBy(r, b) == [a |-> r.a, err |-> r.err, b |-> b, panic |-> r.panic]

(* bc := copy of b; if err = deinterleave(bc, size); err != nil { return  *)
(* nil, err }; a, err = appendByteValues(t, bc, size, 0), bc being the    *)
(* outcome of the deinterleave.                                           *)
deinterleavedValues(t, b, bc, size) ==
    IF ~IsNil(bc.err) THEN [a |-> <<>>, err |-> bc.err, b |-> b, panic |-> FALSE]
    ELSE bufferKeptBy(appendByteValues(t, bc.bytes, size, 0), b)

(* func ValuesFromBytes(t Type, b []byte) (a []Value, err error); the b   *)
(* of the result is the content of the caller's buffer after the call.    *)
ValuesFromBytes(t, b) ==
    IF ~Valid(t)
    THEN [a |-> <<>>, err |-> ErrInvalidType(t), b |-> b, panic |-> FALSE]
    ELSE CASE t \in {TypeBool, TypeFaces, TypeAxes} ->
                bufferKeptBy(appendByteValues(t, b, 1, 0), b)
           [] t = TypeVector3int16 ->
                bufferKeptBy(appendByteValues(t, b, 6, 0), b)
           [] t \in {TypeDouble, TypeNumberRange} ->
                bufferKeptBy(appendByteValues(t, b, 8, 0), b)
           [] t = TypeRay ->
                bufferKeptBy(appendByteValues(t, b, 24, 0), b)
           [] t = TypeString ->
                bufferKeptBy(appendByteValues(t, b, -1, 1), b)
           [] t = TypeNumberSequence ->
                bufferKeptBy(appendByteValues(t, b, -1, sizeNSK), b)
           [] t = TypeColorSequence ->
                bufferKeptBy(appendByteValues(t, b, -1, sizeCSK), b)
           [] t \in {TypeInt, TypeFloat, TypeBrickColor, TypeToken, TypeSharedString} ->
                deinterleavedValues(t, b, deinterleave(b, 4), 4)
           [] t = TypeInt64 ->
                deinterleavedValues(t, b, deinterleave(b, 8), 8)
           [] t \in {TypeUDim, TypeUDim2, TypeColor3, TypeVector2, TypeVector3,
                     TypeRect2D, TypeColor3uint8} ->
                deinterleaveFields(t, b)
           [] t = TypeCFrame ->
                cframePositions(b, cframeMatrices(b, 0, 0))
           [] t = TypeReference ->
                IF Len(b) = 0 THEN [a |-> <<>>, err |-> Nil, b |-> b, panic |-> FALSE]
                ELSE IF Len(b) % 4 # 0
                THEN [a |-> <<>>, err |-> Err("array must be divisible by %d", <<4>>),
                      b |-> b, panic |-> FALSE]
                ELSE referencesRead(b, deinterleave(b, 4))
           [] t = TypePhysicalProperties ->
                bufferKept(physicalPropertiesValues(b, 0, <<>>), b)
           [] t = TypeVector2int16 ->
                [a |-> <<>>, err |-> ErrNotImplemented, b |-> b, panic |-> FALSE]

----------------------------------------------------------------------------
(* Inputs.  The values and buffers the calls are made on are drawn from   *)
(* the bounded sets below.                                                *)

(* Longest array of values encoded. *)
MaxLen == 4
(* Longest raw buffer handed to ValuesFromBytes. *)
MaxBuf == 30
(* Longest raw buffer handed to a single value's FromBytes. *)
MaxOne == 50

(* float32 bit patterns: 1.0, a negative number with the low bit set, -0. *)
F1 == <<63, 128, 0, 0>>
F2 == <<192, 64, 0, 1>>
F3 == <<128, 0, 0, 0>>

V3a == [X |-> F1, Y |-> F2, Z |-> F3]
V3b == [X |-> F2, Y |-> Zeros(4), Z |-> F1]

(* Sample values of every kind, as the sequence of their Go values. *)
Samples(t) ==
    CASE t = TypeString -> << <<65, 66>>, <<>> >>
      [] t = TypeBool -> <<TRUE, FALSE>>
      [] t = TypeInt -> <<IntWord(-3, 4), <<128, 0, 0, 0>>>>
      [] t = TypeFloat -> <<F1, F2>>
      [] t = TypeDouble -> << <<63, 240, 0, 0, 0, 0, 0, 1>>, <<128, 0, 0, 0, 0, 0, 0, 0>> >>
      [] t = TypeUDim -> <<[Scale |-> F1, Offset |-> IntWord(-7, 4)],
                           [Scale |-> F2, Offset |-> IntWord(70000, 4)]>>
      [] t = TypeUDim2 -> <<[ScaleX |-> F1, ScaleY |-> F2,
                             OffsetX |-> IntWord(5, 4), OffsetY |-> IntWord(-6, 4)],
                            [ScaleX |-> F3, ScaleY |-> F1,
                             OffsetX |-> <<128, 0, 0, 0>>, OffsetY |-> IntWord(258, 4)]>>
      [] t = TypeRay -> <<[OriginX |-> F1, OriginY |-> F2, OriginZ |-> F3,
                           DirectionX |-> F2, DirectionY |-> F1, DirectionZ |-> Zeros(4)],
                          ZeroRay>>
      [] t = TypeFaces -> <<[Right |-> TRUE, Top |-> FALSE, Back |-> TRUE,
                             Left |-> FALSE, Bottom |-> FALSE, Front |-> TRUE],
                            ZeroFaces>>
      [] t = TypeAxes -> <<[X |-> FALSE, Y |-> TRUE, Z |-> TRUE], ZeroAxes>>
      [] t = TypeBrickColor -> << <<0, 0, 1, 194>>, <<255, 0, 0, 7>> >>
      [] t = TypeColor3 -> <<[R |-> F1, G |-> F2, B |-> F3],
                             [R |-> F2, G |-> F1, B |-> Zeros(4)]>>
      [] t = TypeVector2 -> <<[X |-> F1, Y |-> F2], [X |-> F3, Y |-> F1]>>
      [] t = TypeVector3 -> <<V3a, V3b>>
      [] t = TypeVector2int16 -> <<[X |-> <<1, 2>>, Y |-> <<255, 254>>], ZeroVector2int16>>
      [] t = TypeCFrame ->
            <<[Special |-> 0, Rotation |-> [i \in 1..9 |-> <<63, 128, 0, i>>],
               Position |-> V3a],
              [Special |-> 2, Rotation |-> [i \in 1..9 |-> Zeros(4)], Position |-> V3b],
              [Special |-> 5, Rotation |-> [i \in 1..9 |-> F1], Position |-> V3a]>>
      [] t = TypeToken -> << <<0, 0, 0, 3>>, <<1, 2, 3, 4>> >>
      [] t = TypeReference -> <<IntWord(10, 4), <<127, 255, 255, 255>>>>
      [] t = TypeVector3int16 ->
            <<[X |-> <<1, 2>>, Y |-> <<255, 254>>, Z |-> <<128, 0>>], ZeroVector3int16>>
      [] t = TypeNumberSequence ->
            << <<[Time |-> Zeros(4), Value |-> F1, Envelope |-> F2],
                 [Time |-> F1, Value |-> F2, Envelope |-> F3]>>,
               <<>> >>
      [] t = TypeColorSequence ->
            << <<[Time |-> F1, Value |-> [R |-> F1, G |-> F2, B |-> F3],
                  Envelope |-> F2]>>,
               <<>> >>
      [] t = TypeNumberRange -> <<[Min |-> F2, Max |-> F1], ZeroNumberRange>>
      [] t = TypeRect2D -> <<[Min |-> [X |-> F1, Y |-> F2], Max |-> [X |-> F3, Y |-> F1]],
                             [Min |-> [X |-> F2, Y |-> F2], Max |-> ZeroVector2]>>
      [] t = TypePhysicalProperties ->
            <<[CustomPhysics |-> 1, Density |-> F1, Friction |-> F2, Elasticity |-> F3,
               FrictionWeight |-> F1, ElasticityWeight |-> F2],
              ZeroPhysicalProperties,
              [CustomPhysics |-> 0, Density |-> F1, Friction |-> F2, Elasticity |-> F3,
               FrictionWeight |-> F1, ElasticityWeight |-> F2]>>
      [] t = TypeColor3uint8 -> <<[R |-> 1, G |-> 2, B |-> 255], [R |-> 200, G |-> 0, B |-> 9]>>
      [] t = TypeInt64 -> <<IntWord(-3, 8), <<128, 0, 0, 0, 0, 0, 0, 0>>>>
      [] t = TypeSharedString -> << <<0, 0, 0, 9>>, <<9, 8, 7, 6>> >>

(* The type tags tried: every byte value up to one past the last kind,    *)
(* and the largest byte.                                                  *)
Tags == (TypeInvalid..(TypeSharedString + 1)) \cup {255}
Kinds == {t \in Tags : Valid(t)}

(* A value of a kind other than t. *)
Foreign(t) ==
    IF t = TypeInt THEN Value(TypeBool, TRUE) ELSE Value(TypeInt, IntWord(1, 4))

(* The values an array for tag t is filled from: a foreign one, then the  *)
(* samples of kind t (of kind Int for a tag that is no kind).             *)
Pool(t) ==
    LET k == IF t \in Kinds THEN t ELSE TypeInt
    IN <<Foreign(k)>> \o [i \in 1..Len(Samples(k)) |-> Value(k, Samples(k)[i])]

(* The arrays the concrete scenarios of the specification encode. *)
Scenarios ==
    << <<TypeInt, [i \in 1..4 |-> Value(TypeInt, IntWord(<<0, -1, 1, 2>>[i], 4))]>>,
       <<TypeReference,
         [i \in 1..3 |-> Value(TypeReference, IntWord(<<10, 12, 9>>[i], 4))]>>,
       <<TypeReference,
         <<Value(TypeReference, <<128, 0, 0, 0>>),
           Value(TypeReference, <<127, 255, 255, 255>>)>> >>,
       <<TypeBool, <<Value(TypeBool, TRUE), Value(TypeBool, FALSE), Value(TypeBool, TRUE)>> >>,
       <<TypeCFrame,
         <<Value(TypeCFrame,
                 [Special |-> 2, Rotation |-> [i \in 1..9 |-> Zeros(4)],
                  Position |-> [X |-> <<63, 128, 0, 0>>, Y |-> <<64, 0, 0, 0>>,
                                Z |-> <<64, 64, 0, 0>>]])>> >> >>

(* Raw buffers: pattern p at length n. *)
Patterns == 1..5
RawByte(p, i) ==
    CASE p = 1 -> 0
      [] p = 2 -> IF i = 1 THEN 1 ELSE (i * 37) % 256
      [] p = 3 -> IF i = 1 THEN 2 ELSE IF i <= 4 THEN 0 ELSE i
      [] p = 4 -> 256 - i
      [] p = 5 -> IF i = 1 THEN 1 ELSE 0
Raw(p, n) == [i \in 1..n |-> RawByte(p, i)]

(* The bytes appended to an encoded blob to corrupt it. *)
ExtraBytes == {0, 7}

----------------------------------------------------------------------------
(* The state: one sequence of calls on the array codec, or on the codec   *)
(* of a single value.                                                     *)

VARIABLES
    t,      \* the type tag of the calls
    a,      \* the array of values handed to ValuesToBytes
    b,      \* the caller's byte buffer
    src,    \* where b comes from: "none", "raw", "encoded", "corrupted"
    pc,     \* "values", "bytes", "decoded", "again", "failed"; "value", "from"
    enc,    \* the result of ValuesToBytes
    dec,    \* the result of the first ValuesFromBytes on b
    again,  \* the result of the second ValuesFromBytes on b
    v,      \* the single value handed to Bytes
    vb,     \* the result of Bytes
    fb,     \* the result of FromBytes
    length, \* the length handed to interleave, the size handed to deinterleave
    il,     \* the result of interleave on b
    dil,    \* the result of deinterleave on the interleaved b
    il2,    \* the result of a second interleave on the interleaved b
    word,   \* the word handed to the first call on a scalar primitive
    calls,  \* the calls on the scalar primitives so far, each fed the last result
    rest    \* the bytes of the backing array of b past len(b), up to cap(b)

vars ==
    <<t, a, b, src, pc, enc, dec, again, v, vb, fb, length, il, dil, il2, word, calls,
      rest>>

(* The state of the calls on the scalar primitives alone. *)
scalarVars == <<word, calls>>

(* The state of the calls on interleave and deinterleave alone. *)
leaveVars == <<length, il, dil, il2>>

None == [called |-> FALSE]

(* The record of a call: its result, and the buffer before it. *)
Called(r, before) ==
    [called |-> TRUE, r |-> r, before |-> before]

Init ==
    /\ enc = None /\ dec = None /\ again = None
    /\ v = None /\ vb = None /\ fb = None
    /\ length = 0 /\ il = None /\ dil = None /\ il2 = None
    /\ word = <<>> /\ calls = <<>> /\ rest = <<>>
    /\ \/ /\ pc = "values" /\ src = "none" /\ b = <<>>
          /\ \E tt \in Tags, n \in 0..MaxLen :
               \E sel \in [1..n -> 1..Len(Pool(tt))] :
                  /\ t = tt
                  /\ a = [i \in 1..n |-> Pool(tt)[sel[i]]]
       \/ /\ pc = "values" /\ src = "none" /\ b = <<>>
          /\ \E k \in 1..Len(Scenarios) :
               t = Scenarios[k][1] /\ a = Scenarios[k][2]
       \/ /\ pc = "bytes" /\ src = "raw" /\ a = <<>>
          /\ \E tt \in Tags, n \in 0..MaxBuf, p \in Patterns :
               t = tt /\ b = Raw(p, n)

(* b, err := ValuesToBytes(t, a) *)
Encoded(r) ==
    /\ enc' = Called(r, b)
    /\ IF IsNil(r.err) /\ ~r.panic
       THEN b' = r.b /\ src' = "encoded" /\ pc' = "bytes"
       ELSE b' = b /\ src' = src /\ pc' = "failed"

Encode ==
    /\ pc = "values"
    /\ Encoded(ValuesToBytes(t, a))
    /\ UNCHANGED <<t, a, dec, again, v, vb, fb>>
    /\ UNCHANGED leaveVars
    /\ UNCHANGED scalarVars
    /\ UNCHANGED rest

(* The encoded blob loses its last byte before it is decoded. *)
Truncate ==
    /\ pc = "bytes" /\ src = "encoded" /\ Len(b) > 0
    /\ b' = SubSeq(b, 1, Len(b) - 1)
    /\ src' = "corrupted"
    /\ UNCHANGED <<t, a, pc, enc, dec, again, v, vb, fb>>
    /\ UNCHANGED leaveVars
    /\ UNCHANGED scalarVars
    /\ UNCHANGED rest

(* The encoded blob gains a byte before it is decoded. *)
Extend ==
    /\ pc = "bytes" /\ src = "encoded"
    /\ \E x \in ExtraBytes : b' = Append(b, x)
    /\ src' = "corrupted"
    /\ UNCHANGED <<t, a, pc, enc, dec, again, v, vb, fb>>
    /\ UNCHANGED leaveVars
    /\ UNCHANGED scalarVars
    /\ UNCHANGED rest

(* a, err := ValuesFromBytes(t, b) *)
Decoded(r) == dec' = Called(r, b) /\ b' = r.b

Decode ==
    /\ pc = "bytes"
    /\ Decoded(ValuesFromBytes(t, b))
    /\ pc' = "decoded"
    /\ UNCHANGED <<t, a, src, enc, again, v, vb, fb>>
    /\ UNCHANGED leaveVars
    /\ UNCHANGED scalarVars
    /\ UNCHANGED rest

(* A second a, err := ValuesFromBytes(t, b) on the same buffer. *)
DecodedAgain(r) == again' = Called(r, b) /\ b' = r.b

DecodeAgain ==
    /\ pc = "decoded" /\ ~dec.r.panic
    /\ DecodedAgain(ValuesFromBytes(t, b))
    /\ pc' = "again"
    /\ UNCHANGED <<t, a, src, enc, dec, v, vb, fb>>
    /\ UNCHANGED leaveVars
    /\ UNCHANGED scalarVars
    /\ UNCHANGED rest

Next == Encode \/ Truncate \/ Extend \/ Decode \/ DecodeAgain

Spec == Init /\ [][Next]_vars

----------------------------------------------------------------------------
(* The codec of a single value: Bytes on a sample value followed by       *)
(* FromBytes on the result, or FromBytes on a raw buffer.                 *)

(* The bytes between the length and the capacity of a raw buffer: none,   *)
(* or 4 or 20 bytes of the array it was cut from.                         *)
SpareLens == {0, 4, 20}
Spare(k) == [i \in 1..k |-> 9 + i]

InitOne ==
    /\ a = <<>> /\ enc = None /\ dec = None /\ again = None
    /\ vb = None /\ fb = None
    /\ length = 0 /\ il = None /\ dil = None /\ il2 = None
    /\ word = <<>> /\ calls = <<>>
    /\ \E tt \in Kinds :
         /\ t = tt
         /\ \/ /\ pc = "value" /\ src = "none" /\ b = <<>> /\ rest = <<>>
               /\ \E i \in 1..Len(Samples(tt)) : v = Value(tt, Samples(tt)[i])
            \/ /\ pc = "bytes" /\ src = "raw" /\ v = None
               /\ \E n \in 0..MaxOne, p \in Patterns : b = Raw(p, n)
               /\ \E k \in SpareLens : rest = Spare(k)

(* b := v.Bytes(), a slice as long as its array. *)
BytesCalled(r) == vb' = Called(r, b) /\ b' = r

CallBytes ==
    /\ pc = "value"
    /\ BytesCalled(Bytes(v))
    /\ src' = "encoded"
    /\ pc' = "bytes"
    /\ UNCHANGED <<t, a, enc, dec, again, v, fb>>
    /\ UNCHANGED leaveVars
    /\ UNCHANGED scalarVars
    /\ UNCHANGED rest

(* err := NewValue(t).FromBytes(b) *)
CallFromBytes ==
    /\ pc = "bytes"
    /\ fb' = Called(FromBytes(t, b, rest), b)
    /\ pc' = "from"
    /\ UNCHANGED <<t, a, b, src, enc, dec, again, v, vb>>
    /\ UNCHANGED leaveVars
    /\ UNCHANGED scalarVars
    /\ UNCHANGED rest

NextOne == CallBytes \/ CallFromBytes

SpecOne == InitOne /\ [][NextOne]_vars

----------------------------------------------------------------------------
(* interleave and deinterleave on their own: interleave on a raw buffer,  *)
(* then deinterleave, or interleave once more, on the outcome.            *)

(* Largest length handed to interleave. *)
MaxStride == 6

InitLeave ==
    /\ t = TypeInvalid /\ a = <<>> /\ src = "raw" /\ pc = "buffer"
    /\ enc = None /\ dec = None /\ again = None
    /\ v = None /\ vb = None /\ fb = None
    /\ il = None /\ dil = None /\ il2 = None
    /\ word = <<>> /\ calls = <<>> /\ rest = <<>>
    /\ \E n \in 0..MaxBuf, p \in Patterns : b = Raw(p, n)
    /\ length \in -1..MaxStride

(* err := interleave(b, length) *)
Interleaved(r) == il' = Called(r, b) /\ b' = r.bytes

Interleave ==
    /\ pc = "buffer"
    /\ Interleaved(interleave(b, length))
    /\ pc' = "interleaved"
    /\ UNCHANGED <<t, a, src, enc, dec, again, v, vb, fb, length, dil, il2>>
    /\ UNCHANGED scalarVars
    /\ UNCHANGED rest

(* err := deinterleave(b, length) on the interleaved buffer *)
Deinterleaved(r) == dil' = Called(r, b) /\ b' = r.bytes

Deinterleave ==
    /\ pc = "interleaved" /\ IsNil(il.r.err)
    /\ Deinterleaved(deinterleave(b, length))
    /\ pc' = "deinterleaved"
    /\ UNCHANGED <<t, a, src, enc, dec, again, v, vb, fb, length, il, il2>>
    /\ UNCHANGED scalarVars
    /\ UNCHANGED rest

(* err := interleave(b, length) on the interleaved buffer *)
InterleavedAgain(r) == il2' = Called(r, b) /\ b' = r.bytes

InterleaveAgain ==
    /\ pc = "interleaved" /\ IsNil(il.r.err)
    /\ InterleavedAgain(interleave(b, length))
    /\ pc' = "twice"
    /\ UNCHANGED <<t, a, src, enc, dec, again, v, vb, fb, length, il, dil>>
    /\ UNCHANGED scalarVars
    /\ UNCHANGED rest

NextLeave == Interleave \/ Deinterleave \/ InterleaveAgain

SpecLeave == InitLeave /\ [][NextLeave]_vars

----------------------------------------------------------------------------
(* The scalar primitives on their own: a call on a word, then a call on   *)
(* its result.                                                            *)

(* Most calls in a row. *)
MaxCalls == 2

(* The bytes the words are made of. *)
ByteSamples == {0, 1, 127, 128, 255}

(* The words of 32 bits tried, and those of 64 bits. *)
Words32 == {<<b1, b2, b3, b4>> : b1 \in ByteSamples, b2 \in ByteSamples,
                                 b3 \in ByteSamples, b4 \in ByteSamples}
Words64 == {<<b1, b2, m, m, m, m, b7, b8>> :
               b1 \in ByteSamples, b2 \in ByteSamples, m \in {0, 255},
               b7 \in ByteSamples, b8 \in ByteSamples}

InitScalar ==
    /\ t = TypeInvalid /\ a = <<>> /\ b = <<>> /\ src = "none" /\ pc = "word"
    /\ enc = None /\ dec = None /\ again = None
    /\ v = None /\ vb = None /\ fb = None
    /\ length = 0 /\ il = None /\ dil = None /\ il2 = None
    /\ word \in Words32 \cup Words64
    /\ calls = <<>> /\ rest = <<>>

(* The argument of the next call: the word, or the last result. *)
Arg == IF calls = <<>> THEN word ELSE calls[Len(calls)].out

(* The record of a call on function fn that returned out. *)
Returned(fn, out) ==
    /\ calls' = Append(calls, [fn |-> fn, in |-> Arg, out |-> out])
    /\ UNCHANGED <<t, a, b, src, pc, enc, dec, again, v, vb, fb, word, rest>>
    /\ UNCHANGED leaveVars

EncodeZigzag32 ==
    /\ pc = "word" /\ Len(calls) < MaxCalls /\ Len(Arg) = 4
    /\ Returned("encodeZigzag32", encodeZigzag32(Arg))

DecodeZigzag32 ==
    /\ pc = "word" /\ Len(calls) < MaxCalls /\ Len(Arg) = 4
    /\ Returned("decodeZigzag32", decodeZigzag32(Arg))

EncodeZigzag64 ==
    /\ pc = "word" /\ Len(calls) < MaxCalls /\ Len(Arg) = 8
    /\ Returned("encodeZigzag64", encodeZigzag64(Arg))

DecodeZigzag64 ==
    /\ pc = "word" /\ Len(calls) < MaxCalls /\ Len(Arg) = 8
    /\ Returned("decodeZigzag64", decodeZigzag64(Arg))

EncodeRobloxFloat ==
    /\ pc = "word" /\ Len(calls) < MaxCalls /\ Len(Arg) = 4
    /\ Returned("encodeRobloxFloat", encodeRobloxFloat(Arg))

DecodeRobloxFloat ==
    /\ pc = "word" /\ Len(calls) < MaxCalls /\ Len(Arg) = 4
    /\ Returned("decodeRobloxFloat", decodeRobloxFloat(Arg))

NextScalar ==
    \/ EncodeZigzag32 \/ DecodeZigzag32 \/ EncodeZigzag64 \/ DecodeZigzag64
    \/ EncodeRobloxFloat \/ DecodeRobloxFloat

SpecScalar == InitScalar /\ [][NextScalar]_vars

----------------------------------------------------------------------------
(* Properties.  Those on the array codec are stated on Spec, those on the *)
(* codec of a single value on SpecOne.                                    *)

(* Every element of a has kind k. *)
AllOfKind(k, xs) == \A i \in 1..Len(xs) : xs[i].type = k

(* The kinds whose arrays have an encoding: all but Vector2int16. *)
Supported(k) == Valid(k) /\ k # TypeVector2int16

(* The call returned without an error and without a panic. *)
Succeeded(r) == IsNil(r.err) /\ ~r.panic

(* The call returned an error. *)
Failed(r) == ~IsNil(r.err) /\ ~r.panic

(* C1. Array round trip: for every supported tag other than Vector2int16  *)
(* and every array of values of that kind, of any length including 0,     *)
(* ValuesToBytes succeeds, and ValuesFromBytes on its output succeeds and *)
(* returns an array equal to the input element by element.                *)
C1_ArrayRoundTrip ==
    (enc.called /\ Supported(t) /\ AllOfKind(t, a))
        => /\ Succeeded(enc.r)
           /\ (dec.called /\ src = "encoded")
                 => Succeeded(dec.r) /\ dec.r.a = a

(* C2. Empty arrays: for every supported tag, ValuesToBytes of the empty  *)
(* array returns the empty byte sequence and no error, and                *)
(* ValuesFromBytes of the empty buffer returns the empty array and no     *)
(* error, the kinds decoded through deinterleave included.                *)
C2_EmptyArrays ==
    Supported(t)
        => /\ (enc.called /\ a = <<>>) => Succeeded(enc.r) /\ enc.r.b = <<>>
           /\ (dec.called /\ dec.before = <<>>) => Succeeded(dec.r) /\ dec.r.a = <<>>

(* The value FromBytes is to give back for the bytes of val: val itself,  *)
(* but a CFrame with Special # 0 with its rotation zero and a             *)
(* PhysicalProperties with CustomPhysics = 0 with its floats zero.        *)
Normalised(k, val) ==
    IF k = TypeCFrame /\ val.Special # 0
    THEN [val EXCEPT !.Rotation = [i \in 1..9 |-> Zeros(4)]]
    ELSE IF k = TypePhysicalProperties /\ val.CustomPhysics = 0
    THEN [CustomPhysics |-> 0, Density |-> Zeros(4), Friction |-> Zeros(4),
          Elasticity |-> Zeros(4), FrictionWeight |-> Zeros(4),
          ElasticityWeight |-> Zeros(4)]
    ELSE val

(* C3. Single-value round trip: for every kind and every value v of that  *)
(* kind, FromBytes on v.Bytes() succeeds and yields v, a CFrame with      *)
(* Special # 0 coming back with zero rotation and a PhysicalProperties    *)
(* with CustomPhysics = 0 with zero floats; PhysicalProperties of 1 byte  *)
(* and of 21 bytes included.                                              *)
C3_SingleRoundTrip ==
    (vb.called /\ fb.called)
        => Succeeded(fb.r) /\ fb.r.v = Normalised(t, v.v)

(* C4. Decode does not change its input: after ValuesFromBytes(t, b)      *)
(* returns, with values or with an error, the caller's buffer holds the   *)
(* bytes it held before the call, for the field-split kinds and for the   *)
(* position region of a CFrame blob as for the others.                    *)
C4_DecodeKeepsBuffer ==
    /\ pc = "decoded" => b = dec.before
    /\ pc = "again" => b = again.before

(* The size in bytes of one value of a kind of fixed size, 0 for a kind   *)
(* that has no fixed size.                                                *)
FixedSize(k) ==
    CASE k \in {TypeBool, TypeFaces, TypeAxes} -> 1
      [] k = TypeColor3uint8 -> 3
      [] k \in {TypeInt, TypeFloat, TypeBrickColor, TypeToken, TypeSharedString,
                TypeReference, TypeVector2int16} -> 4
      [] k = TypeVector3int16 -> 6
      [] k \in {TypeDouble, TypeNumberRange, TypeInt64, TypeUDim, TypeVector2} -> 8
      [] k \in {TypeColor3, TypeVector3} -> 12
      [] k \in {TypeUDim2, TypeRect2D} -> 16
      [] k = TypeRay -> 24
      [] OTHER -> 0

(* C5. BadLength on array decode: for every kind of fixed size s other    *)
(* than Vector2int16 and every buffer whose length is not a multiple of   *)
(* s, ValuesFromBytes returns an error; no trailing byte is dropped.      *)
C5_BadLength ==
    (dec.called /\ Supported(t) /\ FixedSize(t) > 0
       /\ Len(dec.before) % FixedSize(t) # 0)
        => Failed(dec.r)

(* C6. No decode aborts: for every kind and every byte slice, the empty   *)
(* one and one non-zero byte included, FromBytes returns a value or an    *)
(* error and does not panic.                                              *)
C6_NoDecodePanic ==
    fb.called => ~fb.r.panic

(* The buffer has the length the kind expects: the fixed size, 4 + L for  *)
(* String, 4 + 12n and 4 + 20n for NumberSequence and ColorSequence, 49   *)
(* or 13 for CFrame by byte 0, 21 or 1 for PhysicalProperties by byte 0.  *)
LengthMatches(k, buf) ==
    CASE k = TypeString ->
            /\ Len(buf) >= 4
            /\ ~WordGtNat(LittleEndianUint(buf, 4), Len(buf))
            /\ Len(buf) = 4 + WordNat(LittleEndianUint(buf, 4))
      [] k = TypeNumberSequence ->
            /\ Len(buf) >= 4
            /\ ~WordGtNat(LittleEndianUint(buf, 4), Len(buf))
            /\ Len(buf) = 4 + 12 * WordNat(LittleEndianUint(buf, 4))
      [] k = TypeColorSequence ->
            /\ Len(buf) >= 4
            /\ ~WordGtNat(LittleEndianUint(buf, 4), Len(buf))
            /\ Len(buf) = 4 + 20 * WordNat(LittleEndianUint(buf, 4))
      [] k = TypeCFrame ->
            Len(buf) > 0 /\ Len(buf) = (IF buf[1] = 0 THEN 49 ELSE 13)
      [] k = TypePhysicalProperties ->
            Len(buf) > 0 /\ Len(buf) = (IF buf[1] # 0 THEN 21 ELSE 1)
      [] OTHER -> Len(buf) = FixedSize(k)

(* C7. Single-value length check: for every kind, FromBytes(b) returns an *)
(* error exactly when len(b) differs from the expected length of the kind *)
(* and succeeds otherwise, the expected length of PhysicalProperties      *)
(* being 21 if b[0] # 0 and 1 otherwise.                                  *)
C7_SingleLengthCheck ==
    fb.called
        => IF LengthMatches(t, fb.before) THEN Succeeded(fb.r) ELSE Failed(fb.r)

(* The tags that are no kind: 0x00, 0x11 and those above 0x1C. *)
InvalidTag(k) == k = 0 \/ k = 17 \/ k > 28

(* C8. Invalid type tag: for a tag that is 0x00, 0x11 or above 0x1C both  *)
(* ValuesToBytes and ValuesFromBytes return an error that prints the tag  *)
(* as two hexadecimal digits, and no data; every other tag is accepted.   *)
C8_InvalidTypeTag ==
    /\ enc.called
         => IF InvalidTag(t)
            THEN /\ enc.r.b = <<>> /\ ~enc.r.panic
                 /\ enc.r.err = [msg |-> "invalid type (%02X)", args |-> <<Hex02(t)>>]
            ELSE enc.r.err.msg # "invalid type (%02X)"
    /\ dec.called
         => IF InvalidTag(t)
            THEN /\ dec.r.a = <<>> /\ ~dec.r.panic
                 /\ dec.r.err = [msg |-> "invalid type (%02X)", args |-> <<Hex02(t)>>]
            ELSE dec.r.err.msg # "invalid type (%02X)"

(* The lowest index (0-based) of an element of xs whose kind is not k. *)
LowestForeign(k, xs) ==
    (CHOOSE i \in 1..Len(xs) :
        xs[i].type # k /\ \A j \in 1..(i - 1) : xs[j].type = k) - 1

(* C9. Kind mismatch on encode: for every valid tag and every array with  *)
(* an element of another kind, ValuesToBytes returns no bytes and the     *)
(* error that names the lowest index of such an element, the kind of that *)
(* element and the tag, in the text of ElementTypeFormat with its back    *)
(* quotes; for every tag, whatever its packing rule.                      *)
C9_KindMismatch ==
    (enc.called /\ Valid(t) /\ ~AllOfKind(t, a))
        => /\ enc.r.b = <<>> /\ ~enc.r.panic
           /\ enc.r.err.msg = ElementTypeFormat
           /\ enc.r.err.args =
                <<LowestForeign(t, a), String(a[LowestForeign(t, a) + 1].type), String(t)>>

(* An array of a valid tag whose second and third elements are of another *)
(* kind was refused, the error naming index 1.                            *)
C9_Witness ==
    /\ enc.called /\ Valid(t) /\ Len(a) = 3
    /\ a[1].type = t /\ a[2].type # t /\ a[3].type # t
    /\ enc.r.err.args[1] = 1

(* C10. Vector2int16 arrays are not implemented: ValuesToBytes on every   *)
(* array of Vector2int16 values and ValuesFromBytes on every buffer with  *)
(* that tag return the error "not implemented" and no data, whatever the  *)
(* length, 0 included.                                                    *)
C10_Vector2int16NotImplemented ==
    t = TypeVector2int16
        => /\ (enc.called /\ AllOfKind(t, a))
                => /\ enc.r.err = [msg |-> "not implemented", args |-> <<>>]
                   /\ enc.r.b = <<>> /\ ~enc.r.panic
           /\ dec.called
                => /\ dec.r.err = [msg |-> "not implemented", args |-> <<>>]
                   /\ dec.r.a = <<>> /\ ~dec.r.panic

(* An array of two Vector2int16 values was handed to ValuesToBytes and    *)
(* refused as not implemented.                                            *)
C10_Witness ==
    /\ enc.called /\ t = TypeVector2int16
    /\ Len(a) = 2 /\ AllOfKind(t, a)
    /\ enc.r.err.msg = "not implemented"

(* C11. No partial result on error: whenever ValuesFromBytes returns an  *)
(* error the array it returns is empty, and whenever ValuesToBytes        *)
(* returns an error the bytes it returns are empty, for every tag, also   *)
(* when the failure comes after some values were read.                    *)
C11_NoPartialResult ==
    /\ (dec.called /\ ~IsNil(dec.r.err)) => dec.r.a = <<>>
    /\ (again.called /\ ~IsNil(again.r.err)) => again.r.a = <<>>
    /\ (enc.called /\ ~IsNil(enc.r.err)) => enc.r.b = <<>>

(* The blob of two strings lost its last byte; its decode read the first  *)
(* record, failed on the second and returned no values.                   *)
C11_Witness ==
    /\ dec.called /\ t = TypeString /\ src = "corrupted"
    /\ Len(a) = 2 /\ Len(dec.before) > 4 + Len(a[1].v)
    /\ dec.r.err.msg = "expected 4 more bytes in array"
    /\ dec.r.a = <<>>

(* C12. Interleave round trip: for every buffer, the empty one included, *)
(* and every stride > 0 that divides its length, interleave followed by   *)
(* deinterleave with that stride both succeed and leave the buffer as it  *)
(* was; when the stride is len/stride, interleave twice restores it.      *)
C12_InterleaveRoundTrip ==
    (il.called /\ length > 0 /\ Len(il.before) % length = 0)
        => /\ IsNil(il.r.err)
           /\ dil.called => IsNil(dil.r.err) /\ b = il.before
           /\ (il2.called /\ length * length = Len(il.before))
                 => IsNil(il2.r.err) /\ b = il.before

(* The 32-bit word whose big-endian bytes encode a value of a stride-4    *)
(* kind: zigzag for Int, the rotated bits for Float, the number itself    *)
(* for BrickColor, Token and SharedString.                                *)
Stride4Word(k, val) ==
    IF k = TypeInt THEN encodeZigzag32(val)
    ELSE IF k = TypeFloat THEN encodeRobloxFloat(val)
    ELSE val

(* The blob of [Int(0), Int(-1), Int(1), Int(2)]. *)
IntScenarioBlob == <<0, 0, 0, 0, 0, 0, 0, 0, 0, 0, 0, 0, 0, 1, 2, 4>>
IntScenarioValues ==
    <<[type |-> TypeInt, v |-> <<0, 0, 0, 0>>],
      [type |-> TypeInt, v |-> <<255, 255, 255, 255>>],
      [type |-> TypeInt, v |-> <<0, 0, 0, 1>>],
      [type |-> TypeInt, v |-> <<0, 0, 0, 2>>]>>

(* C13. Stride-4 packing of Int, Float, BrickColor, Token, SharedString:  *)
(* the blob of n values has 4n bytes and its byte c*n + r is byte c of    *)
(* the big-endian encoding of value r (zigzag for Int); the array         *)
(* [0, -1, 1, 2] of Int encodes to 00 x 13, 01 02 04, and that blob       *)
(* decodes to [0, -1, 1, 2].                                              *)
C13_Stride4Packing ==
    /\ (enc.called /\ AllOfKind(t, a)
          /\ t \in {TypeInt, TypeFloat, TypeBrickColor, TypeToken, TypeSharedString})
         => /\ Succeeded(enc.r)
            /\ Len(enc.r.b) = 4 * Len(a)
            /\ \A c \in 0..3, r \in 0..(Len(a) - 1) :
                  enc.r.b[c * Len(a) + r + 1] = Stride4Word(t, a[r + 1].v)[c + 1]
    /\ (enc.called /\ t = TypeInt /\ AllOfKind(t, a) /\ a = IntScenarioValues)
         => enc.r.b = IntScenarioBlob
    /\ (dec.called /\ t = TypeInt /\ dec.before = IntScenarioBlob)
         => Succeeded(dec.r) /\ dec.r.a = IntScenarioValues

(* The array [0, -1, 1, 2] of Int was encoded and its blob decoded. *)
C13_Witness ==
    /\ enc.called /\ t = TypeInt /\ AllOfKind(t, a) /\ a = IntScenarioValues
    /\ dec.called /\ dec.before = IntScenarioBlob /\ dec.r.a = IntScenarioValues

(* The array [Reference(10), Reference(12), Reference(9)]. *)
RefScenarioValues ==
    <<[type |-> TypeReference, v |-> <<0, 0, 0, 10>>],
      [type |-> TypeReference, v |-> <<0, 0, 0, 12>>],
      [type |-> TypeReference, v |-> <<0, 0, 0, 9>>]>>

(* The zigzag values 20, 4, 5 of the deltas 10, 2, -3, big-endian. *)
RefScenarioPerValue == <<0, 0, 0, 20, 0, 0, 0, 4, 0, 0, 0, 5>>

(* C14 as stated. Reference scenario: [Reference(10), Reference(12),      *)
(* Reference(9)] gives the per-value bytes 00 00 00 14 00 00 00 04        *)
(* 00 00 00 05 and, interleaved with stride 4, the 14-byte blob           *)
(* 00 00 00 00 00 00 00 00 00 00 00 14 04 05; the blob decodes to         *)
(* [10, 12, 9].                                                           *)
C14_ReferenceScenario ==
    (enc.called /\ t = TypeReference /\ AllOfKind(t, a) /\ a = RefScenarioValues)
        => /\ referenceDeltas(a) = RefScenarioPerValue
           /\ enc.r.b = <<0, 0, 0, 0, 0, 0, 0, 0, 0, 0, 0, 20, 4, 5>>
           /\ (dec.called /\ src = "encoded")
                 => Succeeded(dec.r) /\ dec.r.a = RefScenarioValues

(* C14 as amended. Reference scenario: the same array gives the same      *)
(* per-value bytes and, interleaved with stride 4, the 12-byte blob       *)
(* 00 00 00 00 00 00 00 00 00 14 04 05 (nine zero bytes, not eleven); the *)
(* blob decodes to [10, 12, 9].                                           *)
C14_ReferenceScenarioAmended ==
    (enc.called /\ t = TypeReference /\ AllOfKind(t, a) /\ a = RefScenarioValues)
        => /\ referenceDeltas(a) = RefScenarioPerValue
           /\ enc.r.b = <<0, 0, 0, 0, 0, 0, 0, 0, 0, 20, 4, 5>>
           /\ (dec.called /\ src = "encoded")
                 => Succeeded(dec.r) /\ dec.r.a = RefScenarioValues

(* The array [10, 12, 9] of references was encoded and its blob of 12     *)
(* bytes decoded.                                                         *)
C14_Witness ==
    /\ enc.called /\ t = TypeReference /\ AllOfKind(t, a) /\ a = RefScenarioValues
    /\ dec.called /\ Len(dec.before) = 12 /\ dec.r.a = RefScenarioValues

(* The matrix region of a CFrame blob: per value the Special byte, and    *)
(* the 36 bytes of the rotation when Special is 0.                        *)
MatrixRegion(xs) ==
    Concat([i \in 1..Len(xs) |->
              IF xs[i].v.Special = 0
              THEN <<0>> \o Concat([k \in 1..9 |-> Reverse(xs[i].v.Rotation[k])])
              ELSE <<xs[i].v.Special>>])

(* The number of bytes of the matrix region of the first n values. *)
RECURSIVE MatrixSize(_, _)
MatrixSize(xs, n) ==
    IF n = 0 THEN 0
    ELSE MatrixSize(xs, n - 1) + (IF xs[n].v.Special = 0 THEN 37 ELSE 1)

(* The field-split blob of the positions of the values. *)
PositionRegion(xs) ==
    interleaveFields(TypeVector3,
                     [i \in 1..Len(xs) |-> [type |-> TypeVector3, v |-> xs[i].v.Position]]).b

(* C15. CFrame array layout and recovery: the blob of n CFrames is the    *)
(* matrix region (per value the Special byte, then 36 bytes of rotation   *)
(* only when Special is 0) followed by the Vector3 field-split blob of    *)
(* the positions, (sum of 1 or 37) + 12n bytes in all; the decoder reads  *)
(* n matrices from it and returns n CFrames with the same Special and     *)
(* Position, the same Rotation when Special is 0 and zero Rotation        *)
(* otherwise.  One CFrame with Special 2 encodes to 13 bytes.             *)
C15_CFrameLayout ==
    (enc.called /\ t = TypeCFrame /\ AllOfKind(t, a))
        => /\ Succeeded(enc.r)
           /\ enc.r.b = MatrixRegion(a) \o PositionRegion(a)
           /\ Len(enc.r.b) = MatrixSize(a, Len(a)) + 12 * Len(a)
           /\ (dec.called /\ src = "encoded")
                 => /\ Succeeded(dec.r)
                    /\ Len(dec.r.a) = Len(a)
                    /\ \A i \in 1..Len(a) :
                          /\ dec.r.a[i].type = TypeCFrame
                          /\ dec.r.a[i].v.Special = a[i].v.Special
                          /\ dec.r.a[i].v.Position = a[i].v.Position
                          /\ dec.r.a[i].v.Rotation =
                                IF a[i].v.Special = 0 THEN a[i].v.Rotation
                                ELSE [k \in 1..9 |-> <<0, 0, 0, 0>>]

(* Two CFrames, the first with Special 0 and the second with another      *)
(* Special and a rotation that is not zero, were encoded to 38 + 24 bytes *)
(* and decoded.                                                           *)
C15_Witness ==
    /\ enc.called /\ t = TypeCFrame /\ AllOfKind(t, a) /\ Len(a) = 2
    /\ a[1].v.Special = 0 /\ a[2].v.Special # 0
    /\ a[2].v.Rotation # [k \in 1..9 |-> <<0, 0, 0, 0>>]
    /\ dec.called /\ src = "encoded" /\ Len(dec.before) = 62 /\ Len(dec.r.a) = 2

(* C16. Interleave is a byte-matrix transpose: for every buffer and      *)
(* every stride > 0 that divides its length, with cols = stride and       *)
(* rows = len/stride, after interleave the byte at c*rows + r is the      *)
(* byte that was at r*cols + c, and the length is the same; the in-place  *)
(* branch taken when rows = cols gives what the scratch branch gives.     *)
C16_InterleaveTranspose ==
    (il.called /\ length > 0 /\ Len(il.before) % length = 0)
        => /\ IsNil(il.r.err)
           /\ Len(b) = Len(il.before)
           /\ \A r \in 0..((Len(il.before) \div length) - 1), c \in 0..(length - 1) :
                 il.r.bytes[c * (Len(il.before) \div length) + r + 1]
                     = il.before[r * length + c + 1]

(* A buffer of 16 bytes was interleaved with stride 4, in place, and      *)
(* changed.                                                               *)
C16_Witness ==
    /\ pc = "interleaved" /\ il.called /\ length = 4 /\ Len(il.before) = 16
    /\ IsNil(il.r.err) /\ b # il.before

(* C17. Interleave argument errors: interleave returns an error exactly   *)
(* when the stride is not positive or does not divide the length of the   *)
(* buffer, and when it returns an error the buffer is as it was.          *)
C17_InterleaveArgErrors ==
    il.called
        => /\ ~IsNil(il.r.err) <=> (length <= 0 \/ Len(il.before) % length # 0)
           /\ ~IsNil(il.r.err) => il.r.bytes = il.before

(* A buffer of 6 bytes was handed to interleave with stride 4, which      *)
(* returned an error and left it alone.                                   *)
C17_Witness ==
    /\ pc = "interleaved" /\ il.called /\ length = 4 /\ Len(il.before) = 6
    /\ il.r.err.msg = "length must be a divisor of array length"
    /\ b = il.before

(* The widths in bytes of the fields of a field-split kind, in the order  *)
(* of their declaration.                                                  *)
FieldWidths(k) ==
    CASE k \in {TypeUDim, TypeVector2} -> <<4, 4>>
      [] k \in {TypeColor3, TypeVector3} -> <<4, 4, 4>>
      [] k \in {TypeUDim2, TypeRect2D} -> <<4, 4, 4, 4>>
      [] k = TypeColor3uint8 -> <<1, 1, 1>>

(* C18. Field-split layout: for UDim, UDim2, Color3, Vector2, Vector3,    *)
(* Rect2D and Color3uint8 with field widths w and every array of n >= 1   *)
(* values, the blob has sum(w)*n bytes, column f starts at                *)
(* n*(w[0]+...+w[f-1]) and has n*w[f] bytes, the columns are in the       *)
(* order of declaration, and in column f the byte at c*n + i is byte c    *)
(* of the encoding of field f of value i.                                 *)
C18_FieldSplitLayout ==
    (enc.called /\ Valid(t) /\ IsFielder(t) /\ AllOfKind(t, a) /\ Len(a) >= 1)
        => /\ Succeeded(enc.r)
           /\ Len(enc.r.b)
                = SumTo(FieldWidths(t), Len(FieldWidths(t))) * Len(a)
           /\ \A f \in 1..Len(FieldWidths(t)), i \in 0..(Len(a) - 1) :
                 \A c \in 0..(FieldWidths(t)[f] - 1) :
                    enc.r.b[Len(a) * SumTo(FieldWidths(t), f - 1) + c * Len(a) + i + 1]
                        = fieldGet(t, a[i + 1].v, f - 1)[c + 1]

(* Three UDim2 values were encoded to a blob of 48 bytes. *)
C18_Witness ==
    /\ enc.called /\ t = TypeUDim2 /\ AllOfKind(t, a) /\ Len(a) = 3
    /\ IsNil(enc.r.err) /\ Len(enc.r.b) = 48

(* The word stored for element r (0-based) of an array of references:    *)
(* the zigzag of the first value, or of the difference modulo 2^32 from   *)
(* the value before.                                                      *)
StoredReference(xs, r) ==
    encodeZigzag32(IF r = 0 THEN xs[1].v ELSE Sub(xs[r + 1].v, xs[r].v))

(* C19. Reference delta coding with wrap-around: the first value is       *)
(* stored as its zigzag and every later one as the zigzag of its          *)
(* difference from the value before, modulo 2^32, in the stride-4 layout; *)
(* decoding accumulates modulo 2^32 and gives back the array, also where  *)
(* a difference overflows int32, as in [MinInt32, MaxInt32].              *)
C19_ReferenceDeltas ==
    (enc.called /\ t = TypeReference /\ AllOfKind(t, a))
        => /\ Succeeded(enc.r)
           /\ Len(enc.r.b) = 4 * Len(a)
           /\ \A c \in 0..3, r \in 0..(Len(a) - 1) :
                 enc.r.b[c * Len(a) + r + 1] = StoredReference(a, r)[c + 1]
           /\ (dec.called /\ src = "encoded")
                 => Succeeded(dec.r) /\ dec.r.a = a

(* The array [MinInt32, MaxInt32], whose difference overflows, was        *)
(* encoded, the second value stored as the zigzag of -1, and decoded.     *)
C19_Witness ==
    /\ enc.called /\ t = TypeReference /\ AllOfKind(t, a) /\ Len(a) = 2
    /\ a[1].v = <<128, 0, 0, 0>> /\ a[2].v = <<127, 255, 255, 255>>
    /\ enc.r.b = <<255, 0, 255, 0, 255, 0, 255, 1>>
    /\ dec.called /\ src = "encoded" /\ dec.r.a = a

(* The greedy matrix scan of a CFrame blob from offset i with m matrices  *)
(* read: it goes on while more than 12m bytes remain, taking 37 bytes for *)
(* a Special byte of 0 and 1 byte for another; short tells that a Special *)
(* byte of 0 had fewer than 36 bytes after it.                            *)
RECURSIVE GreedyScan(_, _, _)
GreedyScan(buf, i, m) ==
    IF Len(buf) - i > 12 * m
    THEN IF buf[i + 1] # 0 THEN GreedyScan(buf, i + 1, m + 1)
         ELSE IF Len(buf) - (i + 1) < 36 THEN [short |-> TRUE, i |-> i + 1, m |-> m]
         ELSE GreedyScan(buf, i + 37, m + 1)
    ELSE [short |-> FALSE, i |-> i, m |-> m]

(* C20. CFrame decode accepts only exactly covered blobs: when            *)
(* ValuesFromBytes(CFrame, b) succeeds with m values, the bytes of the    *)
(* matrix scan (1 per value with Special # 0, 37 per value with Special   *)
(* 0) plus 12m are len(b); a buffer whose position bytes are not 12 times *)
(* the number of matrices read, or where a Special byte of 0 has fewer    *)
(* than 36 bytes after it, gives an error.                                *)
C20_CFrameExactCover ==
    (dec.called /\ t = TypeCFrame)
        => /\ Succeeded(dec.r)
                => MatrixSize(dec.r.a, Len(dec.r.a)) + 12 * Len(dec.r.a)
                      = Len(dec.before)
           /\ (\/ GreedyScan(dec.before, 0, 0).short
               \/ Len(dec.before) - GreedyScan(dec.before, 0, 0).i
                      # 12 * GreedyScan(dec.before, 0, 0).m)
                => Failed(dec.r)

(* A buffer of 14 bytes, in which the scan reads two matrices and leaves  *)
(* 12 bytes for the positions, was refused.                               *)
C20_Witness ==
    /\ dec.called /\ t = TypeCFrame /\ src = "raw" /\ Len(dec.before) = 14
    /\ GreedyScan(dec.before, 0, 0).m = 2
    /\ dec.r.err.msg = "number of positions does not match number of matrices"

(* The number of bytes of the first n values of a PhysicalProperties      *)
(* blob: 21 for a value with CustomPhysics, 1 for one without.            *)
RECURSIVE PhysicalSize(_, _)
PhysicalSize(xs, n) ==
    IF n = 0 THEN 0
    ELSE PhysicalSize(xs, n - 1) + (IF xs[n].v.CustomPhysics # 0 THEN 21 ELSE 1)

(* The five fields of a PhysicalProperties, 4 little-endian bytes each. *)
PhysicalFields(pp) ==
    Reverse(pp.Density) \o Reverse(pp.Friction) \o Reverse(pp.Elasticity)
    \o Reverse(pp.FrictionWeight) \o Reverse(pp.ElasticityWeight)

(* The scan of a PhysicalProperties blob from offset i with m values      *)
(* read: 1 byte for a leading byte of 0, 21 for another; short tells that *)
(* a leading byte other than 0 had fewer than 20 bytes after it.          *)
RECURSIVE PhysicalScan(_, _, _)
PhysicalScan(buf, i, m) ==
    IF i >= Len(buf) THEN [short |-> FALSE, i |-> i, m |-> m]
    ELSE IF buf[i + 1] = 0 THEN PhysicalScan(buf, i + 1, m + 1)
    ELSE IF Len(buf) - (i + 1) < 20 THEN [short |-> TRUE, i |-> i + 1, m |-> m]
    ELSE PhysicalScan(buf, i + 21, m + 1)

(* C21. PhysicalProperties array codec: encode writes per value one       *)
(* CustomPhysics byte, followed by the 20 bytes of the five fields only   *)
(* when CustomPhysics is not 0; decode of any buffer takes 1 byte per     *)
(* value whose leading byte is 0 and 21 per value whose leading byte is   *)
(* not, stops exactly at the end of the buffer, returns an error when a   *)
(* leading byte other than 0 has fewer than 20 bytes after it, and the    *)
(* values decoded with CustomPhysics 0 have all five fields zero.         *)
C21_PhysicalPropertiesCodec ==
    /\ (enc.called /\ t = TypePhysicalProperties /\ AllOfKind(t, a))
          => /\ Succeeded(enc.r)
             /\ Len(enc.r.b) = PhysicalSize(a, Len(a))
             /\ \A i \in 1..Len(a) :
                   Slice(enc.r.b, PhysicalSize(a, i - 1), PhysicalSize(a, i))
                      = IF a[i].v.CustomPhysics # 0
                        THEN <<a[i].v.CustomPhysics>> \o PhysicalFields(a[i].v)
                        ELSE <<0>>
    /\ (dec.called /\ t = TypePhysicalProperties)
          => /\ ~dec.r.panic
             /\ PhysicalScan(dec.before, 0, 0).short <=> Failed(dec.r)
             /\ Succeeded(dec.r)
                   => /\ Len(dec.r.a) = PhysicalScan(dec.before, 0, 0).m
                      /\ PhysicalScan(dec.before, 0, 0).i = Len(dec.before)
                      /\ PhysicalSize(dec.r.a, Len(dec.r.a)) = Len(dec.before)
                      /\ \A i \in 1..Len(dec.r.a) :
                            /\ dec.r.a[i].type = TypePhysicalProperties
                            /\ dec.r.a[i].v.CustomPhysics
                                  = dec.before[PhysicalSize(dec.r.a, i - 1) + 1]
                            /\ dec.r.a[i].v.CustomPhysics = 0
                                  => dec.r.a[i].v = ZeroPhysicalProperties
                            /\ dec.r.a[i].v.CustomPhysics # 0
                                  => PhysicalFields(dec.r.a[i].v)
                                        = Slice(dec.before,
                                                PhysicalSize(dec.r.a, i - 1) + 1,
                                                PhysicalSize(dec.r.a, i))

(* An array with a value with CustomPhysics and one without was encoded   *)
(* in 22 bytes and decoded.                                               *)
C21_Witness ==
    /\ enc.called /\ t = TypePhysicalProperties /\ AllOfKind(t, a) /\ Len(a) = 2
    /\ a[1].v.CustomPhysics # 0 /\ a[2].v.CustomPhysics = 0
    /\ a[2].v.Density # <<0, 0, 0, 0>>
    /\ dec.called /\ src = "encoded" /\ Len(dec.before) = 22 /\ Len(dec.r.a) = 2

(* The bytes of a field of the variable-length kinds. *)
RecordField(k) ==
    CASE k = TypeString -> 1
      [] k = TypeNumberSequence -> 12
      [] k = TypeColorSequence -> 20
      [] OTHER -> 0

(* The scan of a blob of records from offset i with m records read, each  *)
(* a little-endian count N of 4 bytes followed by N*f bytes: short tells  *)
(* that 1 to 3 bytes were left for a count, past that the N*f bytes of a  *)
(* record ended after the buffer. A count with one of its two high bytes  *)
(* set is over 65535, more than any buffer here holds.                    *)
RECURSIVE RecordScan(_, _, _, _)
RecordScan(buf, i, m, f) ==
    IF i >= Len(buf) THEN [short |-> FALSE, past |-> FALSE, m |-> m]
    ELSE IF Len(buf) - i < 4 THEN [short |-> TRUE, past |-> FALSE, m |-> m]
    ELSE IF \/ buf[i + 3] # 0 \/ buf[i + 4] # 0
            \/ (buf[i + 1] + 256 * buf[i + 2]) * f > Len(buf) - (i + 4)
    THEN [short |-> FALSE, past |-> TRUE, m |-> m]
    ELSE RecordScan(buf, i + 4 + (buf[i + 1] + 256 * buf[i + 2]) * f, m + 1, f)

(* The number of bytes of the records of the first n values. *)
RECURSIVE RecordSize(_, _, _)
RecordSize(xs, n, f) ==
    IF n = 0 THEN 0 ELSE RecordSize(xs, n - 1, f) + 4 + Len(xs[n].v) * f

(* C22. Variable-length array decode (String, NumberSequence,             *)
(* ColorSequence): decode reads records one after another, each a 4-byte  *)
(* little-endian count N followed by N*f bytes (f = 1, 12, 20), moving on *)
(* by 4 + N*f each time; it succeeds exactly when the buffer is a         *)
(* concatenation of whole records, and returns an error when fewer than 4 *)
(* bytes are left for a count or when the N*f bytes of a record run past  *)
(* the end of the buffer.                                                 *)
C22_VariableLengthDecode ==
    (dec.called /\ t \in {TypeString, TypeNumberSequence, TypeColorSequence})
        => /\ ~dec.r.panic
           /\ Succeeded(dec.r)
                 <=> /\ ~RecordScan(dec.before, 0, 0, RecordField(t)).short
                     /\ ~RecordScan(dec.before, 0, 0, RecordField(t)).past
           /\ (\/ RecordScan(dec.before, 0, 0, RecordField(t)).short
               \/ RecordScan(dec.before, 0, 0, RecordField(t)).past)
                 => Failed(dec.r)
           /\ Succeeded(dec.r)
                 => /\ Len(dec.r.a) = RecordScan(dec.before, 0, 0, RecordField(t)).m
                    /\ RecordSize(dec.r.a, Len(dec.r.a), RecordField(t))
                          = Len(dec.before)
                    /\ \A i \in 1..Len(dec.r.a) :
                          /\ dec.r.a[i].type = t
                          /\ dec.before[RecordSize(dec.r.a, i - 1, RecordField(t)) + 1]
                                = Len(dec.r.a[i].v)

(* A buffer of three whole records of no bytes and two bytes more was     *)
(* refused for the count that is cut short.                               *)
C22_Witness ==
    /\ dec.called /\ t = TypeString /\ src = "raw" /\ Len(dec.before) = 14
    /\ \A i \in 1..14 : dec.before[i] = 0
    /\ RecordScan(dec.before, 0, 0, 1).short
    /\ RecordScan(dec.before, 0, 0, 1).m = 3
    /\ dec.r.err.msg = "expected 4 more bytes in array"

(* The words 0, 1, -1, the least signed word and the greatest unsigned   *)
(* word of as many bytes as w.                                            *)
WordZero(w) == [i \in 1..Len(w) |-> 0]
WordOne(w) == [i \in 1..Len(w) |-> IF i = Len(w) THEN 1 ELSE 0]
WordOnes(w) == [i \in 1..Len(w) |-> 255]
WordMin(w) == [i \in 1..Len(w) |-> IF i = 1 THEN 128 ELSE 0]

(* What the zigzag laws say of one encodeZigzag call on n that gave u.    *)
ZigzagEncodeLaw(n, u) ==
    /\ Len(u) = Len(n)
    /\ n = WordZero(n) => u = WordZero(n)
    /\ n = WordOnes(n) => u = WordOne(n)
    /\ n = WordMin(n) => u = WordOnes(n)
    /\ n[1] < 128 => u = Add(n, n)
    /\ n[1] >= 128 => u = Sub(Sub(WordZero(n), Add(n, n)), WordOne(n))

(* C23. Zigzag laws for width 32 and 64: decodeZigzag(encodeZigzag(n)) is *)
(* n for every signed n; encodeZigzag(decodeZigzag(u)) is u for every     *)
(* unsigned u; encodeZigzag(0) is 0; encodeZigzag(-1) is 1; encodeZigzag  *)
(* of the least signed value is 2^w - 1; a non-negative n maps to 2n and  *)
(* a negative n to -2n - 1.                                               *)
C23_ZigzagLaws ==
    \A k \in 1..Len(calls) :
        /\ calls[k].fn \in {"encodeZigzag32", "encodeZigzag64"}
              => ZigzagEncodeLaw(calls[k].in, calls[k].out)
        /\ (k > 1 /\ calls[k - 1].fn = "encodeZigzag32" /\ calls[k].fn = "decodeZigzag32")
              => calls[k].out = calls[k - 1].in
        /\ (k > 1 /\ calls[k - 1].fn = "decodeZigzag32" /\ calls[k].fn = "encodeZigzag32")
              => calls[k].out = calls[k - 1].in
        /\ (k > 1 /\ calls[k - 1].fn = "encodeZigzag64" /\ calls[k].fn = "decodeZigzag64")
              => calls[k].out = calls[k - 1].in
        /\ (k > 1 /\ calls[k - 1].fn = "decodeZigzag64" /\ calls[k].fn = "encodeZigzag64")
              => calls[k].out = calls[k - 1].in

(* The least signed value of 32 bits was encoded to 2^32 - 1 and decoded  *)
(* back.                                                                  *)
C23_Witness ==
    /\ Len(calls) = 2 /\ word = <<128, 0, 0, 0>>
    /\ calls[1].fn = "encodeZigzag32" /\ calls[1].out = <<255, 255, 255, 255>>
    /\ calls[2].fn = "decodeZigzag32" /\ calls[2].out = <<128, 0, 0, 0>>

(* Bit i of a word, bit 0 being the least significant. *)
WordBit(w, i) == (w[Len(w) - (i \div 8)] \div (2 ^ (i % 8))) % 2

(* The number of bits set in the first n bits of a word. *)
RECURSIVE SetBits(_, _)
SetBits(w, n) == IF n = 0 THEN 0 ELSE SetBits(w, n - 1) + WordBit(w, n - 1)

(* C24. Roblox-float laws on patterns of 32 bits: encodeRobloxFloat       *)
(* rotates the IEEE-754 bits left by 1 (the sign bit goes to the least    *)
(* significant bit) and decodeRobloxFloat rotates right by 1, so          *)
(* decode(encode(u)) is u for every pattern u, +0 and -0 included, the    *)
(* number of bits set is kept, +0 encodes to 0 and -0 to 1.               *)
C24_RobloxFloatLaws ==
    \A k \in 1..Len(calls) :
        /\ calls[k].fn = "encodeRobloxFloat"
              => /\ Len(calls[k].out) = 4
                 /\ \A i \in 0..31 :
                       WordBit(calls[k].out, (i + 1) % 32) = WordBit(calls[k].in, i)
                 /\ SetBits(calls[k].out, 32) = SetBits(calls[k].in, 32)
                 /\ calls[k].in = <<0, 0, 0, 0>> => calls[k].out = <<0, 0, 0, 0>>
                 /\ calls[k].in = <<128, 0, 0, 0>> => calls[k].out = <<0, 0, 0, 1>>
        /\ calls[k].fn = "decodeRobloxFloat"
              => /\ Len(calls[k].out) = 4
                 /\ \A i \in 0..31 :
                       WordBit(calls[k].out, i) = WordBit(calls[k].in, (i + 1) % 32)
        /\ (k > 1 /\ calls[k - 1].fn = "encodeRobloxFloat"
                  /\ calls[k].fn = "decodeRobloxFloat")
              => calls[k].out = calls[k - 1].in

(* -0 was encoded to 1 and decoded back. *)
C24_Witness ==
    /\ Len(calls) = 2 /\ word = <<128, 0, 0, 0>>
    /\ calls[1].fn = "encodeRobloxFloat" /\ calls[1].out = <<0, 0, 0, 1>>
    /\ calls[2].fn = "decodeRobloxFloat" /\ calls[2].out = <<128, 0, 0, 0>>

(* C25. Repeated decode is deterministic: for every type tag and every   *)
(* buffer, two calls of ValuesFromBytes in a row on the same buffer       *)
(* return the same outcome, equal arrays of values or an error both       *)
(* times, and the first call does not change what the second call sees;   *)
(* the field-split kinds and CFrame with two values or more included.     *)
C25_RepeatedDecode ==
    again.called
        => /\ again.before = dec.before
           /\ \/ Succeeded(dec.r) /\ Succeeded(again.r) /\ again.r.a = dec.r.a
              \/ Failed(dec.r) /\ Failed(again.r)

============================================================================
